---- MODULE Spec2Model ----
(***************************************************************************)
(* EasyGUIng: one model page (PageWidget) with its ModelPlot.  The model   *)
(* covers the plot-data cache (ModelPlot.plots, a list of PlotData), the   *)
(* preparation of a plot request (plot / plot_pre), the worker thread      *)
(* (CalcWorker.run), the completion handler (plot_post) and the handlers   *)
(* of the page that edit the inputs or request a plot.                     *)
(*                                                                         *)
(* The GUI thread runs one handler at a time; a worker runs concurrently   *)
(* with it.  plot() is therefore modelled in steps (mainPc), so that a     *)
(* worker can observe the cache list while plot_pre rebuilds it.           *)
(***************************************************************************)
EXTENDS Integers, Sequences, FiniteSets, TLC

(* ------------------------------ bounds -------------------------------- *)
\* largest magnitude a user types into a plot field
MaxVal == 2
\* largest number of entries a user types into a plot field
MaxLen == 3
\* largest number of workers started over a run
MaxBatches == 3
\* largest number of PlotData objects created over a run
MaxSlots == 6

(* ------------------------- the model descriptor ------------------------ *)
\* preference NUM_OF_DATAPOINTS
NUM_OF_DATAPOINTS == 101

\* model.input, in declaration order: x is the axis, b belongs to output o1
Keys == <<"x", "a", "b">>

KeySet == {Keys[i] : i \in 1..Len(Keys)}

\* model.input[k][1]: the representative values of each input
DefaultValues == [x |-> <<1, 3>>, a |-> <<2>>, b |-> <<1, 3>>]

\* model.input[k][3] where given (PageWidget.inputForOption)
InputForOption == [b |-> {"o1"}]

\* model.option['output']
OutputChoices == <<"o1", "o2">>

\* model.plotX
ModelPlotX == "x"

\* the values of the point-count spin box a user chooses among
PointChoices == {2, NUM_OF_DATAPOINTS}

Values == 1..MaxVal

\* what a user can leave in a plot field: up to MaxLen entries
Texts == UNION {[1..n -> Values] : n \in 0..MaxLen}

\* the texts a user types while batches may be running: a single value at
\* which the model raises, and a family whose second curve raises
RaceTexts == {<<1>>, <<2, 1>>}

\* the plot fields a user edits
EditKeys == {"a", "b"}

\* an entry of a field whose dimension is not the declared one of the input
ForeignEntry == 0

\* the texts a user types where dimensions matter: an entry of a foreign
\* dimension, and a valid family
DimTexts == {<<ForeignEntry>>, <<2, 1>>}

\* what a user types into the calculator field of input a
CalcChoices == {ForeignEntry, 2}

\* an entry of a field that Q_ cannot parse
Unparsable == 0 - 1

\* the texts a user types where parsing matters: entries Q_ cannot parse,
\* alone and behind a quantity, and a valid family
ParseTexts == {<<Unparsable>>, <<2, Unparsable>>, <<2, 1>>}

\* what a user types into the calculator field of input a where parsing
\* matters
CalcParseChoices == {Unparsable, 2}

(* ------------------------------- helpers ------------------------------- *)
Range(s) == {s[i] : i \in 1..Len(s)}

MinOf(S) == CHOOSE m \in S : \A n \in S : m <= n

MaxOf(S) == CHOOSE m \in S : \A n \in S : n <= m

\* a PlotData that has no result yet (self.result = None)
NoResult == [tag |-> "None"]

\* the None entries plot_pre appends to the cache list
NoneSlot == 0

\* self.overlay = []: no annotation to remove.  An annotation kept in
\* self.overlay is named by its place among the annotations of the axes;
\* place 0 says the axes have been cleared since it was made
NoOverlay == [set |-> FALSE, at |-> 0]

\* Qt.CheckState of a tristate check box, and the state a click leads to
CheckStates == {"Unchecked", "PartiallyChecked", "Checked"}
Clicked(st) ==
    IF st = "Unchecked" THEN "PartiallyChecked"
    ELSE IF st = "PartiallyChecked" THEN "Checked"
    ELSE "Unchecked"

VARIABLES
    plotInputs,      \* text of the plot fields, per input key
    plotInputQtys,   \* PageWidget.plotInputQtys: the parsed snapshot
    calcInputs,      \* text of the calculator fields, per input key
    calcInputQtys,   \* PageWidget.calcInputQtys
    option,          \* PageWidget.option
    plotX,           \* PageWidget.plotX ("" when no axis is set)
    plotNumOfPts,    \* value of the point-count spin box
    plotBtn,         \* plotBtn.isEnabled()
    plotState,       \* plotState.currentIndex(): 0 ok, 1 busy, 2 pending
    statusMsg,       \* message in the status bar ("" when cleared)
    existingPlots,   \* MainWidget.existingPlots[index] of this page
    tabActive,       \* this page is the current tab
    calcPoint,       \* PageWidget.calcPoint
    heap,            \* the PlotData objects ever created, by identity
    plots,           \* ModelPlot.plots: identities, NoneSlot for None
    legendKeys,      \* ModelPlot.legendKeys
    workers,         \* the CalcWorkers started, in start order
    mainPc,          \* where the GUI thread is: idle, or inside plot()
    loopN,           \* n_ of the loop of plot_pre
    cont,            \* who called plot(): what runs after it returns
    pendingEx,       \* exception raised by plot_pre, not yet handled
    plotCalls,       \* arguments of the ax.plot calls of the last plot_post
    axLines,         \* curve lines on the axes
    axMarks,         \* marker lines on the axes, behind the curves in ax.lines
    axTexts,         \* annotations on the axes
    overlay,         \* ModelPlot.overlay
    plotMin,         \* plotMin.checkState()
    plotMax,         \* plotMax.checkState()
    plotCalc,        \* plotCalc.checkState()
    edited,          \* plot fields edited so far
    prevCall,        \* history: the plot() call that returned last
    before,          \* history: the cache list when plot() was entered
    again,           \* history: plot() repeats a call whose batch completed
    modelPaths,      \* g_modelpath_gen: the files of the model directory
    loadN,           \* files the loop of MainWidget.__init__ has taken
    loadPc,          \* MainWidget.__init__: in the loop over the files, or done
    tabs,            \* labels of the tabs of the MainWidget
    reports,         \* the error(...) reports of MainWidget.__init__
    loaded,          \* history: stems handed to SourceFileLoader
    pwVar,           \* piecewise: var[k_] of the keys, in the order of keys
    pwWidth,         \* piecewise: values in a result of the branch function
    pwNdvars,        \* piecewise: ndvars
    pwArray,         \* piecewise: array
    pwCalls,         \* history: the values handed to the branch function
    pwPc,            \* piecewise: before the loop, in it, returned
    csQty,           \* calc_series: the dict qty of the caller
    csX,             \* calc_series: x of the caller (NoX for None)
    csPlotX,         \* calc_series: self.plotX
    csVar,           \* calc_series: the dict handed to self.calcModel
    csPc,            \* calc_series: called, returned, raised
    igUnits,         \* integrate: units, as (key, dimension) in declared order
    igGrid,          \* integrate: the dimension of x, the grid from F_0 to F_1
    igVar,           \* integrate: var, the shape of the quantity of each key
    igN,             \* integrate: keys the search loop has passed
    igEval,          \* integrate: var as function(var) has received it
    igPc             \* integrate: called, search, eval, returned

vars == <<plotInputs, plotInputQtys, calcInputs, calcInputQtys, option, plotX, plotNumOfPts,
          plotBtn, plotState, statusMsg, existingPlots, tabActive, calcPoint,
          heap, plots, legendKeys, workers, mainPc, loopN, cont, pendingEx,
          plotCalls, axLines, axMarks, axTexts, overlay, plotMin, plotMax, plotCalc,
          edited, prevCall, before, again,
          modelPaths, loadN, loadPc, tabs, reports, loaded,
          pwVar, pwWidth, pwNdvars, pwArray, pwCalls, pwPc,
          csQty, csX, csPlotX, csVar, csPc,
          igUnits, igGrid, igVar, igN, igEval, igPc>>

\* groups of variables, for the UNCHANGED clauses
calcVars == <<calcInputs, calcInputQtys>>
pageVars == <<calcVars, tabActive, existingPlots, calcPoint>>
inputVars == <<plotInputs, plotInputQtys, option, plotX, plotNumOfPts, edited>>
guiVars == <<plotBtn, plotState, statusMsg>>
cacheVars == <<heap, plots, legendKeys>>
mainVars == <<mainPc, loopN, cont, pendingEx>>
axVars == <<plotCalls, axLines, axMarks, axTexts, overlay>>
checkVars == <<plotMin, plotMax, plotCalc>>
histVars == <<prevCall, before, again>>
loadVars == <<modelPaths, loadN, loadPc, tabs, reports, loaded>>
\* what the handlers of a page and the workers never touch
pwVars == <<pwVar, pwWidth, pwNdvars, pwArray, pwCalls, pwPc>>
csVars == <<csQty, csX, csPlotX, csVar, csPc>>
igVars == <<igUnits, igGrid, igVar, igN, igEval, igPc>>
libVars == <<loadVars, pwVars, csVars, igVars>>
\* everything a page and its workers hold
widgetVars == <<calcVars, tabActive, existingPlots, calcPoint, inputVars, guiVars,
                cacheVars, workers, mainVars, axVars, checkVars, histVars>>

(* --------------------------- pure functions ---------------------------- *)
\* np.linspace(first, last, n): kept as its generating triple; XAt gives the
\* samples, each scaled by n-1 so that they stay integers
Linspace(first, last, n) == [first |-> first, last |-> last, n |-> n]

XLen(x) == x.n

XAt(x, i) == x.first * (x.n - 1) + (i - 1) * (x.last - x.first)

\* a faulty variant of the comparison of two sample arrays: the end points
\* are compared, the number of samples is not
ArrayEqualEnds(p, q) == p.first = q.first /\ p.last = q.last

\* np.equal(p_.x, x).all() if len(p_.x) == len(x) else False
ArrayEqual(p, q) ==
    /\ XLen(p) = XLen(q)
    /\ \A i \in 1..XLen(p) : XAt(p, i) = XAt(q, i)

\* update_rowVisibility: inputRelevance.get(k_, True)
InputRelevance(opt, k) ==
    IF k \in DOMAIN InputForOption
    THEN {opt[o] : o \in DOMAIN opt} \cap InputForOption[k] # {}
    ELSE TRUE

\* checkInputs, for fields that all hold quantities of the declared dimension
CheckInputs(inputs) == [k \in DOMAIN inputs |-> inputs[k]]

\* Q_(s_) raises for an entry of the field q
ParseFails(q) == \E i \in 1..Len(q) : q[i] = Unparsable

\* the field q parses, and an entry has a foreign dimension
DimFails(q) == ~ParseFails(q) /\ \E i \in 1..Len(q) : q[i] = ForeignEntry

\* checkInputs raises: Q_ raises for an entry of some field, or raise
\* DimensionalityException for a field with an entry of a foreign dimension
CheckRaises(inputs) ==
    \E k \in DOMAIN inputs : ParseFails(inputs[k]) \/ DimFails(inputs[k])

\* the place, in the order of the dict, of the field at which checkInputs
\* raises
RaisesAt(inputs) ==
    CHOOSE i \in 1..Len(Keys) :
        /\ ParseFails(inputs[Keys[i]]) \/ DimFails(inputs[Keys[i]])
        /\ \A j \in 1..(i - 1) :
              ~ParseFails(inputs[Keys[j]]) /\ ~DimFails(inputs[Keys[j]])

\* plotBtn.isEnabled() when checkInputs has raised: setEnabled(False) before
\* raise DimensionalityException; when Q_ raises, setEnabled(True) of the
\* field before, and btn as it was for the first field
BtnAfterRaise(inputs, btn) ==
    LET i == RaisesAt(inputs)
    IN  IF DimFails(inputs[Keys[i]]) THEN FALSE
        ELSE IF i > 1 THEN TRUE
        ELSE btn

\* the message DimensionalityException leaves in the status bar
DimMsg == "Inkompatible Einheit"

\* the status bar when checkInputs has raised: the message of
\* DimensionalityException; when Q_ raises, clearMessage() of the field
\* before, and msg as it was for the first field
MsgAfterRaise(inputs, msg) ==
    LET i == RaisesAt(inputs)
    IN  IF DimFails(inputs[Keys[i]]) THEN DimMsg
        ELSE IF i > 1 THEN ""
        ELSE msg

\* a quantity without an axis (0-d), as the model function receives the
\* inputs that are not the plot axis
Scalar(v) == [first |-> v, last |-> v, n |-> 0]

\* the inputs the model function reads for these options: the applicable
\* ones, but the second output does not depend on input a (as the output
\* 'Abschwaechung' does not depend on I_0)
ModelReads(opt) ==
    {k \in KeySet : /\ InputRelevance(opt, k)
                    /\ ~(k = "a" /\ opt.output = OutputChoices[2])}

\* the model function raises: it reads var[k] of an input that calc_series
\* has not handed over (KeyError), or it divides by a - 1
ModelRaises(var, opt) ==
    \/ \E k \in ModelReads(opt) : k \notin DOMAIN var
    \/ /\ "a" \in ModelReads(opt) \cap DOMAIN var
       /\ var["a"] = Scalar(1)

\* the value the model function returns for these arguments
ModelValue(var, opt) == [tag |-> "Q", var |-> var, opt |-> opt]

\* len(np.atleast_1d(result)) of a value of the model function: numpy
\* broadcasts the quantities the function has read, the 0-d ones give 1
ResultLen(r) ==
    LET ns == {r.var[k].n : k \in ModelReads(r.opt) \cap DOMAIN r.var}
    IN  IF \E n \in ns : n > 1 THEN CHOOSE n \in ns : n > 1 ELSE 1

\* calc_series: the arguments handed to the model function
SeriesVar(x, qty, px) ==
    IF px # ""
    THEN [k \in DOMAIN qty \cup {px} |-> IF k = px THEN x ELSE Scalar(qty[k])]
    ELSE [k \in DOMAIN qty |-> Scalar(qty[k])]

\* PlotData(x, qty, opt)
PlotData(x, qty, opt) == [x |-> x, qty |-> qty, opt |-> opt, result |-> NoResult]

(* ------------------------- plot_pre, first part ------------------------ *)
\* a faulty variant of the test of plot_pre: no input is skipped
RelevantAll(opt, k) == k \in KeySet

\* the inputs plot_pre does not skip: persistent and visible optional inputs
Relevant(opt, k) == k \in KeySet /\ InputRelevance(opt, k)

\* position of an input in the declaration order
PosOf(k) == CHOOSE i \in 1..Len(Keys) : Keys[i] = k

\* a faulty variant of the test for a single-valued input: the number of
\* entries is counted instead of the number of distinct values
SingleEntry(q) == Len(q) = 1

\* len(set(q_)) == 1
SingleValued(q) == Cardinality(Range(q)) = 1

\* the keys of the dict family
FamilyKeys(opt, px) == {k \in KeySet : Relevant(opt, k) /\ k # px}

\* family[k_] = [q_[0]] for a single-valued input, q_ otherwise
Family(pq, opt, px) ==
    [k \in FamilyKeys(opt, px) |->
        IF SingleValued(pq[k]) THEN <<pq[k][1]>> ELSE pq[k]]

\* x is assigned only when the loop meets the axis input
XDefined(opt, px) == Relevant(opt, px)

\* q_[0] of an axis input without entries raises IndexError
AxisRaises(pq, opt, px) == XDefined(opt, px) /\ pq[px] = <<>>

\* a faulty variant of the sample array: it starts at the second entry of
\* the axis input where there is one
SampleArraySecond(pq, px, npts) ==
    Linspace(pq[px][IF Len(pq[px]) > 1 THEN 2 ELSE 1], pq[px][Len(pq[px])], npts)

\* x = np.linspace(q_[0], q_[-1], plotNumOfPts.value())
SampleArray(pq, px, npts) == Linspace(pq[px][1], pq[px][Len(pq[px])], npts)

\* the keys appended to legendKeys when the scan of the inputs ends normally
LegendKeys(pq, opt, px) ==
    SelectSeq(Keys, LAMBDA k : k \in FamilyKeys(opt, px) /\ ~SingleValued(pq[k]))

\* the keys appended to legendKeys before the axis input raised
LegendKeysBefore(pq, opt, px) ==
    SelectSeq(Keys, LAMBDA k : /\ k \in FamilyKeys(opt, px)
                               /\ ~SingleValued(pq[k])
                               /\ PosOf(k) < PosOf(px))

\* [len(v_) for v_ in family.values() if len(v_) > 1]
VaryingLengths(fam) == {Len(fam[k]) : k \in {j \in DOMAIN fam : Len(fam[j]) > 1}}

\* min() of an empty list raises ValueError
MinRaises(fam) == DOMAIN fam # {} /\ VaryingLengths(fam) = {}

\* numOfPlots
NumOfPlots(fam) == IF DOMAIN fam = {} THEN 1 ELSE MinOf(VaryingLengths(fam))

\* the exception of the first part of plot_pre, "" if it raises none
PreError(pq, opt, px) ==
    IF AxisRaises(pq, opt, px) THEN "IndexError"
    ELSE IF MinRaises(Family(pq, opt, px)) THEN "ValueError"
    ELSE ""

\* a faulty variant of the resize of the cache list: a shorter list keeps
\* its last entries
ResizedTail(ps, num) ==
    IF num <= Len(ps) THEN SubSeq(ps, Len(ps) - num + 1, Len(ps))
    ELSE ps \o [i \in 1..(num - Len(ps)) |-> NoneSlot]

\* self.plots[:numOfPlots], or self.plots extended by None entries
Resized(ps, num) ==
    IF num <= Len(ps) THEN SubSeq(ps, 1, num)
    ELSE ps \o [i \in 1..(num - Len(ps)) |-> NoneSlot]

(* ------------------------- plot_pre, the loop -------------------------- *)
\* the exception the first pass of the loop raises, "" if none:
\* family[f_][n_] of an input without entries, or the unassigned x
LoopError(pq, opt, px) ==
    IF \E k \in FamilyKeys(opt, px) : Len(Family(pq, opt, px)[k]) = 0
    THEN "IndexError"
    ELSE IF ~XDefined(opt, px) THEN "NameError"
    ELSE ""

\* qty of curve n (n counts from 0)
CurveQty(fam, n) ==
    [k \in DOMAIN fam |-> IF Len(fam[k]) = 1 THEN fam[k][1] ELSE fam[k][n + 1]]

\* a faulty variant of the flag same: the sample arrays are compared by
\* identity, and the array plot_pre has just built is always a new object
SameByIdentity(hp, p, x, qty, opt) ==
    /\ p # NoneSlot
    /\ hp[p].opt = opt
    /\ hp[p].qty = qty
    /\ FALSE

\* the flag same for the entry p of the cache list
Same(hp, p, x, qty, opt) ==
    /\ p # NoneSlot
    /\ hp[p].opt = opt
    /\ hp[p].qty = qty
    /\ ArrayEqual(hp[p].x, x)

(* ------------------------------ the page ------------------------------ *)
\* mean of the smallest and the largest representative value (the text the
\* calculator field of an input starts with)
MeanOf(q) == (MinOf(Range(q)) + MaxOf(Range(q))) \div 2

\* plotBtn.isEnabled() after checkInputs has accepted every field
BtnAfterCheck(px) == px # ""

\* calc: qty = first entry of every calculator input
CalcQty(ci) == [k \in DOMAIN ci |-> ci[k][1]]

\* calc: the arguments calc_series hands to the model (x is None)
CalcVar(ci, px) ==
    IF px # ""
    THEN [k \in DOMAIN ci |-> IF k = px THEN Linspace(ci[k][1], ci[k][1], 1)
                                           ELSE Scalar(ci[k][1])]
    ELSE [k \in DOMAIN ci |-> Scalar(ci[k][1])]

CalcRaises(ci, opt, px) == ModelRaises(CalcVar(ci, px), opt)

\* self.calcPoint = (qty, y)
CalcPointOf(ci, opt, px) ==
    [qty |-> CalcQty(ci), y |-> ModelValue(CalcVar(ci, px), opt)]

\* a CalcWorker that QThreadPool has not run yet
\* (evals, raised, again, base and failed are history: the entries
\* evaluated, why run() ended by an exception, whether the call repeated a
\* completed one, how many PlotData objects existed and which workers had
\* ended by an exception when the worker was started)
NewWorker(ag, base, failed) ==
    [phase |-> "queued", live |-> TRUE, list |-> << >>, i |-> 0,
     target |-> NoneSlot, evals |-> {}, raised |-> "", again |-> ag,
     base |-> base, failed |-> failed]

\* a worker that has started run() and has not left it
Running(w) == w.phase \in {"iter", "calc"}

\* a worker whose completion plot_post has not handled yet
InFlight(w) == w.phase \in {"queued", "iter", "calc", "emitted"}

\* the list object a worker iterates: self.ref.plots as it was when the loop
\* started, which is the cache list itself until plot_pre rebinds self.plots
ListOf(w) == IF w.live THEN plots ELSE w.list

\* plot_pre rebinds self.plots to a new list: running workers keep the old one
Detach(ws, old) ==
    [j \in 1..Len(ws) |->
        IF Running(ws[j]) /\ ws[j].live
        THEN [ws[j] EXCEPT !.live = FALSE, !.list = old]
        ELSE ws[j]]

\* what a plot() call reads: inputs, options, axis and point count
Snapshot(pq, opt, px, npts) == [pq |-> pq, opt |-> opt, px |-> px, npts |-> npts]

\* no plot() call has returned yet
NoCall == [snap |-> Snapshot(<< >>, << >>, "", 0), w |-> 0]

InitPage ==
    /\ plotInputs = DefaultValues
    /\ plotInputQtys = CheckInputs(DefaultValues)
    /\ calcInputs = [k \in KeySet |-> <<MeanOf(DefaultValues[k])>>]
    /\ calcInputQtys = CheckInputs(calcInputs)
    /\ option = [output |-> OutputChoices[1]]
    /\ plotX = ModelPlotX
    /\ plotNumOfPts = NUM_OF_DATAPOINTS
    /\ plotBtn = BtnAfterCheck(ModelPlotX)
    /\ plotState = 0
    /\ statusMsg = ""
    /\ existingPlots = FALSE
    /\ tabActive = FALSE
    /\ calcPoint = [qty |-> << >>, y |-> NoResult]
    /\ heap = << >>
    /\ plots = << >>
    /\ legendKeys = << >>
    /\ workers = << >>
    /\ mainPc = "idle"
    /\ loopN = 0
    /\ cont = "none"
    /\ pendingEx = ""
    /\ plotCalls = << >>
    /\ axLines = << >>
    /\ axMarks = << >>
    /\ axTexts = << >>
    /\ overlay = NoOverlay
    /\ plotMin = "Unchecked"
    /\ plotMax = "Unchecked"
    /\ plotCalc = "Unchecked"
    /\ edited = {}
    /\ prevCall = NoCall
    /\ before = << >>
    /\ again = FALSE

(* ------------------- the functions checked on their own ---------------- *)
\* a quantity with its unit: 0-d with one value, or 1-d with its values
UnitQuantity(data, ndim, unit) == [data |-> data, ndim |-> ndim, unit |-> unit]

\* x is None
NoX == UnitQuantity(<< >>, 0 - 1, "")

\* no call of calc_series is under way
NoSeries ==
    /\ csQty = << >>
    /\ csX = NoX
    /\ csPlotX = ""
    /\ csVar = << >>
    /\ csPc = "returned"

\* no call of piecewise is under way
NoPiecewise ==
    /\ pwVar = << >>
    /\ pwWidth = 0
    /\ pwNdvars = << >>
    /\ pwArray = << >>
    /\ pwCalls = << >>
    /\ pwPc = "returned"

\* no call of integrate is under way
NoIntegrate ==
    /\ igUnits = << >>
    /\ igGrid = ""
    /\ igVar = << >>
    /\ igN = 0
    /\ igEval = << >>
    /\ igPc = "returned"

(* -------------------------- f_helper.piecewise ------------------------- *)
\* a quantity of the dict var: 0-d with one value, or 1-d with its values
Quantity0(v) == [ndim |-> 0, data |-> <<v>>]
Quantity1(q) == [ndim |-> 1, data |-> q]

\* the quantities a key of piecewise names
KeyQuantities ==
    {Quantity0(v) : v \in Values}
        \cup {Quantity1(q) : q \in UNION {[1..n -> Values] : n \in 1..MaxLen}}

\* the numbers of keys piecewise is called with
KeyCounts == {1, 2}

\* the results of the branch function tried: a scalar (width 0), arrays of
\* one and of two values
Widths == {0, 1, 2}

\* np.atleast_1d(var[k_])
AtLeast1d(q) == q.data

\* max(len(n_) for n_ in ndvars)
MaxLength(nds) == MaxOf({Len(nds[j]) : j \in 1..Len(nds)})

\* a faulty variant of np.resize: the array is padded with its last value
ResizePadded(a, length) ==
    [i \in 1..length |-> IF i <= Len(a) THEN a[i] ELSE a[Len(a)]]

\* np.resize(n_, length): filled up with repeated copies of the array
Resize(a, length) == [i \in 1..length |-> a[((i - 1) % Len(a)) + 1]]

\* function(var, *v_) as np.append flattens it: one value for a scalar, w
\* values for an array; a value is named by the arguments and its place
BranchResult(v, w) ==
    IF w = 0 THEN <<[args |-> v, at |-> 0]>>
    ELSE [t \in 1..w |-> [args |-> v, at |-> t]]

\* piecewise up to the loop: ndvars made iterable and filled up
PiecewiseEnter ==
    /\ pwPc = "called"
    /\ LET nds == [j \in 1..Len(pwVar) |-> AtLeast1d(pwVar[j])]
       IN  pwNdvars' = [j \in 1..Len(nds) |-> Resize(nds[j], MaxLength(nds))]
    /\ pwArray' = << >>
    /\ pwPc' = "loop"
    /\ UNCHANGED <<pwVar, pwWidth, pwCalls, loadVars, widgetVars, csVars, igVars>>

\* one pass of the loop over itertools.zip_longest(*ndvars)
PiecewiseStep ==
    /\ pwPc = "loop"
    /\ Len(pwCalls) < Len(pwNdvars[1])
    /\ LET v == [j \in 1..Len(pwNdvars) |-> pwNdvars[j][Len(pwCalls) + 1]]
       IN  /\ pwCalls' = Append(pwCalls, v)
           /\ pwArray' = pwArray \o BranchResult(v, pwWidth)
    /\ UNCHANGED <<pwVar, pwWidth, pwNdvars, pwPc, loadVars, widgetVars, csVars, igVars>>

\* return array
PiecewiseReturn ==
    /\ pwPc = "loop"
    /\ Len(pwCalls) = Len(pwNdvars[1])
    /\ pwPc' = "returned"
    /\ UNCHANGED <<pwVar, pwWidth, pwNdvars, pwArray, pwCalls, loadVars, widgetVars, csVars, igVars>>

\* piecewise is called with the quantities of one or two keys and a branch
\* function
InitPiecewise ==
    /\ InitPage
    /\ modelPaths = << >>
    /\ loadN = 0
    /\ loadPc = "done"
    /\ tabs = << >>
    /\ reports = << >>
    /\ loaded = {}
    /\ pwVar \in UNION {[1..n -> KeyQuantities] : n \in KeyCounts}
    /\ pwWidth \in Widths
    /\ pwNdvars = << >>
    /\ pwArray = << >>
    /\ pwCalls = << >>
    /\ pwPc = "called"
    /\ NoSeries
    /\ NoIntegrate

NextPiecewise ==
    \/ PiecewiseEnter
    \/ PiecewiseStep
    \/ PiecewiseReturn

SpecPiecewise == InitPiecewise /\ [][NextPiecewise]_vars

(* ------------------------ calc_series and units ------------------------ *)
\* the units a user writes for a length, the base unit among them, and the
\* factor of each to the base unit
Units == {"m", "km"}
BaseUnit == "m"
Factor == [m |-> 1, km |-> 1000]

\* a faulty variant of to_base_units: the quantity is handed on as it is
ToBaseUnitsKept(q) == q

\* q_.to_base_units(): a new quantity, the magnitude in the base unit
ToBaseUnits(q) ==
    UnitQuantity([i \in 1..Len(q.data) |-> q.data[i] * Factor[q.unit]],
                 q.ndim, BaseUnit)

\* np.atleast_1d(q)
AtLeast1dQ(q) == [q EXCEPT !.ndim = IF q.ndim = 0 THEN 1 ELSE q.ndim]

\* the inputs calc_series is tried with
SeriesKeys == {"x", "a"}

\* the parameter dicts handed to calc_series: 0-d quantities in any unit
SeriesQtys ==
    UNION {[ks -> {UnitQuantity(<<v>>, 0, u) : v \in Values, u \in Units}] :
           ks \in SUBSET SeriesKeys}

\* the x handed to calc_series: None, or sample arrays in any unit
SeriesXs ==
    {NoX} \cup {UnitQuantity(<<v, w>>, 1, u) : v \in Values, w \in Values, u \in Units}

\* calc_series raises before the model is called: qty[self.plotX] of a
\* missing key, for x = None
SeriesRaises(x, qty, px) == px # "" /\ x = NoX /\ px \notin DOMAIN qty

\* calc_series: the dict handed to self.calcModel
SeriesArgs(x, qty, px) ==
    LET base == [k \in DOMAIN qty |-> ToBaseUnits(qty[k])]
    IN  IF px = "" THEN base
        ELSE [k \in DOMAIN qty \cup {px} |->
                 IF k # px THEN base[k]
                 ELSE IF x = NoX THEN AtLeast1dQ(base[px])
                 ELSE ToBaseUnits(x)]

\* calc_series, up to the call of the model function
CalcSeries ==
    /\ csPc = "called"
    /\ ~SeriesRaises(csX, csQty, csPlotX)
    /\ csVar' = SeriesArgs(csX, csQty, csPlotX)
    /\ csPc' = "returned"
    /\ UNCHANGED <<csQty, csX, csPlotX, loadVars, pwVars, widgetVars, igVars>>

\* calc_series raises KeyError
CalcSeriesRaise ==
    /\ csPc = "called"
    /\ SeriesRaises(csX, csQty, csPlotX)
    /\ csPc' = "raised"
    /\ UNCHANGED <<csQty, csX, csPlotX, csVar, loadVars, pwVars, widgetVars, igVars>>

\* calc_series is called with a dict, an x and an axis
InitSeries ==
    /\ InitPage
    /\ modelPaths = << >>
    /\ loadN = 0
    /\ loadPc = "done"
    /\ tabs = << >>
    /\ reports = << >>
    /\ loaded = {}
    /\ NoPiecewise
    /\ csQty \in SeriesQtys
    /\ csX \in SeriesXs
    /\ csPlotX \in SeriesKeys \cup {""}
    /\ csVar = << >>
    /\ csPc = "called"
    /\ NoIntegrate

NextSeries ==
    \/ CalcSeries
    \/ CalcSeriesRaise

SpecSeries == InitSeries /\ [][NextSeries]_vars

(* -------------------------- f_helper.integrate ------------------------- *)
\* the keys a model declares units for, and the dimensions of the units
UnitKeys == {"l", "T", "r"}
Dimensions == {"length", "temperature"}

\* the dicts units tried: one to three keys, in declared order
UnitDicts ==
    LET Pairs == [key : UnitKeys, dim : Dimensions]
    IN  UNION {{u \in [1..n -> Pairs] :
                  \A i, j \in 1..n : i # j => u[i].key # u[j].key} :
               n \in 1..Cardinality(UnitKeys)}

\* what var holds for a key: nothing, a scalar, a vector; integrate makes a
\* vector a column and puts the grid x in place of a quantity
Shapes == {"absent", "scalar", "vector"}

\* np.transpose(np.atleast_2d(var[k_])) for the vectors among the keys of
\* units: keep scalar, modify vector
Transposed(var, units) ==
    [k \in DOMAIN var |->
        IF var[k] = "vector" /\ \E i \in 1..Len(units) : units[i].key = k
        THEN "column" ELSE var[k]]

\* x.check(units[k_])
Check(grid, dim) == grid = dim

\* integrate up to the search: x built, the vectors made columns
IntegrateEnter ==
    /\ igPc = "called"
    /\ igVar' = Transposed(igVar, igUnits)
    /\ igN' = 0
    /\ igPc' = "search"
    /\ UNCHANGED <<igUnits, igGrid, igEval, loadVars, pwVars, csVars, widgetVars>>

\* one pass of the search for the dimension to integrate: var[k_] = x and
\* break when the unit of k_ has the dimension of x
IntegrateSearch ==
    /\ igPc = "search"
    /\ igN < Len(igUnits)
    /\ LET u == igUnits[igN + 1]
       IN  IF Check(igGrid, u.dim)
           THEN /\ igVar' = [igVar EXCEPT ![u.key] = "grid"]
                /\ igPc' = "eval"
           ELSE UNCHANGED <<igVar, igPc>>
    /\ igN' = igN + 1
    /\ UNCHANGED <<igUnits, igGrid, igEval, loadVars, pwVars, csVars, widgetVars>>

\* return np.trapz(function(var), x), after the break or after the loop has
\* passed every key
IntegrateEval ==
    /\ \/ igPc = "eval"
       \/ igPc = "search" /\ igN = Len(igUnits)
    /\ igEval' = igVar
    /\ igPc' = "returned"
    /\ UNCHANGED <<igUnits, igGrid, igVar, igN, loadVars, pwVars, csVars, widgetVars>>

\* integrate is called with a dict units, a dict var and bounds F_0, F_1 of
\* some dimension
InitIntegrate ==
    /\ InitPage
    /\ modelPaths = << >>
    /\ loadN = 0
    /\ loadPc = "done"
    /\ tabs = << >>
    /\ reports = << >>
    /\ loaded = {}
    /\ NoPiecewise
    /\ NoSeries
    /\ igUnits \in UnitDicts
    /\ igGrid \in Dimensions
    /\ igVar \in [UnitKeys -> Shapes]
    /\ igN = 0
    /\ igEval = << >>
    /\ igPc = "called"

NextIntegrate ==
    \/ IntegrateEnter
    \/ IntegrateSearch
    \/ IntegrateEval

SpecIntegrate == InitIntegrate /\ [][NextIntegrate]_vars

(* ------------------------ MainWidget.__init__ -------------------------- *)
\* the attributes ValidModel requires of a model file
Required == {"input", "plotX", "calculate"}

\* a model file as the loop sees it: whether load_module returns, the
\* required attributes the module defines, the input plotX names.  This one
\* is the file of the page modelled here
Complete == [loads |-> TRUE, attrs |-> Required, plotX |-> ModelPlotX]

\* the files tried: the complete one, one that fails to load, those that
\* lack a required attribute, one whose plotX names no input, and a module
\* of helper functions, which defines none of the attributes
FileContents ==
    {Complete, [Complete EXCEPT !.loads = FALSE]}
        \cup {[Complete EXCEPT !.attrs = Required \ {a}] : a \in Required}
        \cup {[Complete EXCEPT !.plotX = "q"], [Complete EXCEPT !.attrs = {}]}

\* p_.stem of the files, letter by letter
Stems == {<<"f", "_", "h">>, <<"f", "m">>, <<"B">>}

\* the model directories tried: files of distinct names, in the order glob
\* yields them
Directories ==
    LET Files == [stem : Stems, content : FileContents]
    IN  UNION {{d \in [1..n -> Files] :
                  \A i, j \in 1..n : i # j => d[i].stem # d[j].stem} :
               n \in 0..Cardinality(Stems)}

\* name[:n]
Prefix(name, n) == SubSeq(name, 1, IF Len(name) < n THEN Len(name) ELSE n)

\* name[:2] == 'f_'
IsHelper(name) == Prefix(name, 2) = <<"f", "_">>

\* a faulty variant of PageRaises: the axis plotX names is not looked up
PageRaisesNoAxis(c) == ~(Required \subseteq c.attrs)

\* PageWidget(model, name) raises: getattr of a required attribute raises
\* AttributeError, self.inputNames[self.plotX] raises KeyError
PageRaises(c) ==
    \/ ~(Required \subseteq c.attrs)
    \/ c.plotX \notin KeySet

\* the label of the tab shown when no model has a tab, and the report made
ErrorTab == <<"Error">>
NoModels == <<"No models loaded.">>

\* the loop takes a file of helper functions: continue
LoadSkip ==
    /\ loadPc = "loop"
    /\ loadN < Len(modelPaths)
    /\ IsHelper(modelPaths[loadN + 1].stem)
    /\ loadN' = loadN + 1
    /\ UNCHANGED <<modelPaths, loadPc, tabs, reports, loaded, widgetVars, pwVars, csVars, igVars>>

\* the loop takes a model file: load_module and PageWidget in the try block,
\* error(...) in the except block, addTab in the else block
LoadModel ==
    /\ loadPc = "loop"
    /\ loadN < Len(modelPaths)
    /\ ~IsHelper(modelPaths[loadN + 1].stem)
    /\ LET f == modelPaths[loadN + 1]
       IN  /\ loaded' = loaded \cup {f.stem}
           /\ IF ~f.content.loads \/ PageRaises(f.content)
              THEN /\ reports' = Append(reports, f.stem)
                   /\ UNCHANGED tabs
              ELSE /\ tabs' = Append(tabs, f.stem)
                   /\ UNCHANGED reports
    /\ loadN' = loadN + 1
    /\ UNCHANGED <<modelPaths, loadPc, widgetVars, pwVars, csVars, igVars>>

\* the loop has ended: without a tab, the report and the tab 'Error'.  (With
\* a tab, on_tab_changed of the first page follows: TabEnter.)
LoadEnd ==
    /\ loadPc = "loop"
    /\ loadN = Len(modelPaths)
    /\ loadPc' = "done"
    /\ IF tabs = << >>
       THEN /\ reports' = Append(reports, NoModels)
            /\ tabs' = <<ErrorTab>>
       ELSE UNCHANGED <<tabs, reports>>
    /\ UNCHANGED <<modelPaths, loadN, loaded, widgetVars, pwVars, csVars, igVars>>

\* MainWidget.__init__ is entered with some model directory
InitLoad ==
    /\ InitPage
    /\ modelPaths \in Directories
    /\ loadN = 0
    /\ loadPc = "loop"
    /\ tabs = << >>
    /\ reports = << >>
    /\ loaded = {}
    /\ NoPiecewise
    /\ NoSeries
    /\ NoIntegrate

NextLoad ==
    \/ LoadSkip
    \/ LoadModel
    \/ LoadEnd

SpecLoad == InitLoad /\ [][NextLoad]_vars

\* the state after construction: the page, and a MainWidget that has loaded
\* the model file of the page from a directory that holds this file only
Init ==
    /\ InitPage
    /\ modelPaths = <<[stem |-> <<"B">>, content |-> Complete]>>
    /\ loadN = 1
    /\ loadPc = "done"
    /\ tabs = <<<<"B">>>>
    /\ reports = << >>
    /\ loaded = {<<"B">>}
    /\ NoPiecewise
    /\ NoSeries
    /\ NoIntegrate
(* ------------------------------- plot() -------------------------------- *)
\* plot(), up to the resize of the cache list in plot_pre.  The caller has
\* set pq, opt, px and npts; c tells what the caller does after plot().
PlotEnter(pq, opt, px, npts, c) ==
    LET fam == Family(pq, opt, px)
        err == PreError(pq, opt, px)
        num == NumOfPlots(fam)
    IN  /\ Len(workers) < MaxBatches
        /\ err = "" => Len(heap) + num <= MaxSlots
        /\ cont' = c
        /\ loopN' = 0
        /\ before' = plots
        /\ again' = /\ prevCall.w # 0
                    /\ workers[prevCall.w].phase = "done"
                    /\ prevCall.snap = Snapshot(pq, opt, px, npts)
        /\ UNCHANGED <<heap, prevCall>>
        \* plot_isBusy(True)
        /\ plotBtn' = FALSE
        /\ plotState' = 1
        /\ IF err # ""
           THEN /\ mainPc' = "fail"
                /\ pendingEx' = err
                /\ legendKeys' = IF err = "IndexError"
                                 THEN LegendKeysBefore(pq, opt, px)
                                 ELSE LegendKeys(pq, opt, px)
                /\ UNCHANGED <<plots, workers>>
           ELSE /\ mainPc' = "loop"
                /\ pendingEx' = ""
                /\ legendKeys' = LegendKeys(pq, opt, px)
                /\ plots' = Resized(plots, num)
                /\ workers' = IF num <= Len(plots)
                              THEN Detach(workers, plots) ELSE workers

\* what the caller of plot() does once plot() has returned; btn, st and msg
\* are the button, the state indicator and the message plot() leaves
AfterPlot(btn, st, msg) ==
    /\ mainPc' = "idle"
    /\ cont' = "none"
    /\ pendingEx' = ""
    /\ loopN' = 0
    /\ again' = FALSE
    /\ before' = << >>
    /\ prevCall' = [snap |-> Snapshot(plotInputQtys, option, plotX, plotNumOfPts),
                    w |-> IF mainPc = "fail" THEN 0 ELSE Len(workers) + 1]
    /\ IF cont = "return"
       THEN \* on_plotEdit_finished: plot_updatePending
            /\ IF CheckRaises(plotInputs)
               THEN /\ plotBtn' = BtnAfterRaise(plotInputs, btn)
                    /\ statusMsg' = MsgAfterRaise(plotInputs, msg)
                    /\ plotState' = st
                    /\ UNCHANGED plotInputQtys
               ELSE /\ plotInputQtys' = CheckInputs(plotInputs)
                    /\ plotBtn' = BtnAfterCheck(plotX)
                    /\ statusMsg' = ""
                    /\ plotState' = 2
            /\ UNCHANGED existingPlots
       ELSE /\ plotBtn' = btn
            /\ plotState' = st
            /\ statusMsg' = msg
            /\ existingPlots' = IF cont = "tab" THEN TRUE ELSE existingPlots
            /\ UNCHANGED plotInputQtys
    /\ UNCHANGED <<plotInputs, option, plotX, plotNumOfPts, edited, calcVars,
                   tabActive, calcPoint, heap, plots, legendKeys, axVars, checkVars>>

\* a faulty variant of the pass of the loop: an entry whose triple differs
\* is not replaced by a new PlotData, the object is filled anew
PlotLoopInPlace ==
    /\ mainPc = "loop"
    /\ loopN < Len(plots)
    /\ LET fam == Family(plotInputQtys, option, plotX)
           err == LoopError(plotInputQtys, option, plotX)
           qty == CurveQty(fam, loopN)
           x == SampleArray(plotInputQtys, plotX, plotNumOfPts)
           p == plots[loopN + 1]
       IN  IF loopN = 0 /\ err # ""
           THEN /\ mainPc' = "fail"
                /\ pendingEx' = err
                /\ UNCHANGED <<heap, plots, loopN>>
           ELSE /\ IF Same(heap, p, x, qty, option)
                   THEN UNCHANGED <<heap, plots>>
                   ELSE IF p # NoneSlot
                   THEN /\ heap' = [heap EXCEPT ![p] = PlotData(x, qty, option)]
                        /\ UNCHANGED plots
                   ELSE /\ heap' = Append(heap, PlotData(x, qty, option))
                        /\ plots' = [plots EXCEPT ![loopN + 1] = Len(heap) + 1]
                /\ loopN' = loopN + 1
                /\ UNCHANGED <<mainPc, pendingEx>>
    /\ UNCHANGED <<pageVars, inputVars, guiVars, legendKeys, workers, cont,
                   axVars, checkVars, histVars>>
    /\ UNCHANGED libVars

\* one pass of the loop of plot_pre
PlotLoop ==
    /\ mainPc = "loop"
    /\ loopN < Len(plots)
    /\ LET fam == Family(plotInputQtys, option, plotX)
           err == LoopError(plotInputQtys, option, plotX)
           qty == CurveQty(fam, loopN)
           x == SampleArray(plotInputQtys, plotX, plotNumOfPts)
           p == plots[loopN + 1]
       IN  IF loopN = 0 /\ err # ""
           THEN /\ mainPc' = "fail"
                /\ pendingEx' = err
                /\ UNCHANGED <<heap, plots, loopN>>
           ELSE /\ IF Same(heap, p, x, qty, option)
                   THEN UNCHANGED <<heap, plots>>
                   ELSE /\ heap' = Append(heap, PlotData(x, qty, option))
                        /\ plots' = [plots EXCEPT ![loopN + 1] = Len(heap) + 1]
                /\ loopN' = loopN + 1
                /\ UNCHANGED <<mainPc, pendingEx>>
    /\ UNCHANGED <<pageVars, inputVars, guiVars, legendKeys, workers, cont,
                   axVars, checkVars, histVars>>
    /\ UNCHANGED libVars

\* plot_pre has returned: plot() starts a CalcWorker
PlotStart ==
    /\ mainPc = "loop"
    /\ loopN = Len(plots)
    /\ workers' = Append(workers, NewWorker(again, Len(heap),
                     {j \in 1..Len(workers) : workers[j].phase = "dead"}))
    /\ AfterPlot(plotBtn, plotState, statusMsg)
    /\ UNCHANGED libVars

\* a faulty variant of the except branch of plot(): the error is reported,
\* plot_isBusy(False) is not called
PlotFailBusy ==
    /\ mainPc = "fail"
    /\ AfterPlot(plotBtn, plotState, pendingEx)
    /\ UNCHANGED workers
    /\ UNCHANGED libVars

\* plot_pre has raised: plot() reports the error and leaves the busy state
PlotFail ==
    /\ mainPc = "fail"
    /\ AfterPlot(TRUE, 0, pendingEx)
    /\ UNCHANGED workers
    /\ UNCHANGED libVars

(* --------------------------- CalcWorker.run ---------------------------- *)
\* run() is over: the worker holds no list and no position any more
Ended(wk, ph, why) ==
    [wk EXCEPT !.phase = ph, !.raised = why, !.live = TRUE, !.list = << >>,
               !.i = 0, !.target = IF ph = "dead" THEN wk.target ELSE NoneSlot]

\* run() starts: the for statement takes the list self.ref.plots
WorkerBegin(w) ==
    /\ workers[w].phase = "queued"
    /\ workers' = [workers EXCEPT ![w].phase = "iter", ![w].live = TRUE,
                                  ![w].i = 0]
    /\ UNCHANGED <<pageVars, inputVars, guiVars, cacheVars, mainVars, axVars, checkVars,
                   histVars>>
    /\ UNCHANGED libVars

\* a faulty variant of the step of the worker: every entry is evaluated,
\* whether it has a result or not
WorkerNextNoSkip(w) ==
    /\ workers[w].phase = "iter"
    /\ LET wk == workers[w]
           lst == ListOf(wk)
       IN  IF wk.i >= Len(lst)
           THEN workers' = [workers EXCEPT ![w] = Ended(wk, "emitted", "")]
           ELSE IF lst[wk.i + 1] = NoneSlot
           THEN workers' = [workers EXCEPT ![w] = Ended(wk, "dead", "entry")]
           ELSE workers' = [workers EXCEPT ![w].phase = "calc",
                                           ![w].target = lst[wk.i + 1]]
    /\ UNCHANGED <<pageVars, inputVars, guiVars, cacheVars, mainVars, axVars, checkVars,
                   histVars>>
    /\ UNCHANGED libVars

\* the worker w takes the next entry p_ and tests p_.result is None
WorkerNext(w) ==
    /\ workers[w].phase = "iter"
    /\ LET wk == workers[w]
           lst == ListOf(wk)
       IN  IF wk.i >= Len(lst)
           THEN \* self.signals.completed.emit(); run() returns
                workers' = [workers EXCEPT ![w] = Ended(wk, "emitted", "")]
           ELSE IF lst[wk.i + 1] = NoneSlot
           THEN \* None has no attribute result: run() ends by the exception
                workers' = [workers EXCEPT ![w] = Ended(wk, "dead", "entry")]
           ELSE IF heap[lst[wk.i + 1]].result # NoResult
           THEN workers' = [workers EXCEPT ![w].i = wk.i + 1]
           ELSE workers' = [workers EXCEPT ![w].phase = "calc",
                                           ![w].target = lst[wk.i + 1]]
    /\ UNCHANGED <<pageVars, inputVars, guiVars, cacheVars, mainVars, axVars, checkVars,
                   histVars>>
    /\ UNCHANGED libVars

\* a faulty variant of the evaluation: calc_series puts the sample array
\* into the dict p_.qty itself instead of into a copy of it
WorkerCalcInPlace(w) ==
    /\ workers[w].phase = "calc"
    /\ LET wk == workers[w]
           p == heap[wk.target]
           var == SeriesVar(p.x, p.qty, plotX)
       IN  IF ModelRaises(var, p.opt)
           THEN /\ workers' = [workers EXCEPT ![w] =
                                   [Ended(wk, "dead", "model") EXCEPT
                                       !.evals = wk.evals \cup {wk.target}]]
                /\ heap' = [heap EXCEPT ![wk.target].qty = var]
           ELSE /\ heap' = [heap EXCEPT ![wk.target].result = ModelValue(var, p.opt),
                                        ![wk.target].qty = var]
                /\ workers' = [workers EXCEPT ![w].phase = "iter",
                                   ![w].i = wk.i + 1,
                                   ![w].evals = wk.evals \cup {wk.target}]
    /\ UNCHANGED <<pageVars, inputVars, guiVars, plots, legendKeys, mainVars,
                   axVars, checkVars, histVars>>
    /\ UNCHANGED libVars

\* p_.result = self.ref.parent().calc_series(p_.x, p_.qty, p_.opt)
WorkerCalc(w) ==
    /\ workers[w].phase = "calc"
    /\ LET wk == workers[w]
           p == heap[wk.target]
           var == SeriesVar(p.x, p.qty, plotX)
       IN  IF ModelRaises(var, p.opt)
           THEN /\ workers' = [workers EXCEPT ![w] =
                                   [Ended(wk, "dead", "model") EXCEPT
                                       !.evals = wk.evals \cup {wk.target}]]
                /\ UNCHANGED heap
           ELSE /\ heap' = [heap EXCEPT ![wk.target].result = ModelValue(var, p.opt)]
                /\ workers' = [workers EXCEPT ![w].phase = "iter",
                                   ![w].i = wk.i + 1,
                                   ![w].evals = wk.evals \cup {wk.target}]
    /\ UNCHANGED <<pageVars, inputVars, guiVars, plots, legendKeys, mainVars,
                   axVars, checkVars, histVars>>
    /\ UNCHANGED libVars

(* ------------------------------- markers ------------------------------- *)
\* The model function taken here: y is the sum of (v - 2)^2 over the inputs
\* handed over, negated for the second output.  Like the samples XAt, the
\* values are kept as integers: the numerators over (n-1)^2, n the length
\* of the sample array.  YParts(r) is what does not depend on the sample:
\* the input that is the array, n-1, the sum over the other inputs, the sign
YParts(r) ==
    LET var == r.var
        reads == ModelReads(r.opt) \cap DOMAIN var
        arr == {k \in reads : var[k].n > 1}
        den == IF arr = {} THEN 1 ELSE var[CHOOSE k \in arr : TRUE].n - 1
        T(k) == IF k \in reads /\ k \notin arr
                THEN den * den * (var[k].first - 2) * (var[k].first - 2)
                ELSE 0
    IN  [ax |-> IF arr = {} THEN "" ELSE CHOOSE k \in arr : TRUE,
         den |-> den,
         rest |-> T("x") + T("a") + T("b"),
         sign |-> IF r.opt.output = OutputChoices[1] THEN 1 ELSE 0 - 1]

\* sample i of the result r, given its parts
YOf(parts, r, i) ==
    LET d == IF parts.ax = "" THEN 0 ELSE XAt(r.var[parts.ax], i) - 2 * parts.den
    IN  parts.sign * (d * d + parts.rest)

\* the y data of a line, sample i, for the result r of the model function
YAt(r, i) == YOf(YParts(r), r, i)

\* Line2D.get_ydata() has n entries for the entry of the cache list drawn
LineLen(line) == XLen(heap[line.slot].x)

\* the y data of a line: Line2D.get_ydata()
YData(line) ==
    LET parts == YParts(line.y)
    IN  [i \in 1..LineLen(line) |-> YOf(parts, line.y, i)]

\* a faulty variant of np.argmin, np.argmax: the last index of the extreme
\* value
ArgExtremeLast(yall, kind) ==
    LET ext == IF kind = "min" THEN MinOf(Range(yall)) ELSE MaxOf(Range(yall))
    IN  MaxOf({i \in 1..Len(yall) : yall[i] = ext})

\* np.argmin(yall), np.argmax(yall): the index of the extreme value, of its
\* first occurrence
ArgExtreme(yall, kind) ==
    LET ext == IF kind = "min" THEN MinOf(Range(yall)) ELSE MaxOf(Range(yall))
    IN  MinOf({i \in 1..Len(yall) : yall[i] = ext})

\* the point (x[index], y[index]) of a line
PointOf(line, index) == <<XAt(heap[line.slot].x, index), YAt(line.y, index)>>

\* markExtremum, one kind: the points appended, one for each of the lines
\* the axes held when markExtremum was entered (numberOfLines)
ExtremumPoints(lines, kind) ==
    [j \in 1..Len(lines) |-> PointOf(lines[j], ArgExtreme(YData(lines[j]), kind))]

\* labelPoint(point, align)
LabelPoint(point, align) == [xy |-> point, va |-> align]

\* markExtremum, one kind: the marker line ax.plot adds for the points pts
ExtremumLine(pts, kind, st) ==
    IF st = "Unchecked" THEN << >>
    ELSE <<[gid |-> "extrema", label |-> kind, pts |-> pts]>>

\* a faulty variant of the annotations: the state of the check box is taken
\* as a truth value
ExtremumLabelsCoerced(pts, kind, st) ==
    IF st # "Unchecked"
    THEN [j \in 1..Len(pts) |->
             LabelPoint(pts[j], IF kind = "min" THEN "top" ELSE "bottom")]
    ELSE << >>

\* markExtremum, one kind: the annotations of the points pts
ExtremumLabels(pts, kind, st) ==
    IF st = "Checked"
    THEN [j \in 1..Len(pts) |->
             LabelPoint(pts[j], IF kind = "min" THEN "top" ELSE "bottom")]
    ELSE << >>

\* markExtremum(plotMin.checkState(), plotMax.checkState()) on axes that
\* hold the curves lines and nothing else: marker lines and annotations
MarkExtremum(lines, stMin, stMax) ==
    LET ptsMin == ExtremumPoints(lines, "min")
        ptsMax == ExtremumPoints(lines, "max")
    IN  [marks |-> ExtremumLine(ptsMin, "min", stMin) \o
                   ExtremumLine(ptsMax, "max", stMax),
         texts |-> ExtremumLabels(ptsMin, "min", stMin) \o
                   ExtremumLabels(ptsMax, "max", stMax)]

\* the sequence s without its entry at place i
Without(s, i) == [j \in 1..(Len(s) - 1) |-> IF j < i THEN s[j] ELSE s[j + 1]]

\* a faulty variant of the reset of the marker: the test is always false
LastIsCalcNever(marks) == marks # << >> /\ marks[Len(marks)].gid = "none"

\* markCalculation finds self.ax.lines[-1] to hold the calculated point
LastIsCalc(marks) == marks # << >> /\ marks[Len(marks)].gid = "calc"

\* markCalculation raises: ax.lines is empty (IndexError) before anything
\* is removed
MarkCalcIndexError(curves, marks) == curves = << >> /\ marks = << >>

\* markCalculation(mark): marker lines, annotations and self.overlay after
\* the call, for the calculated point cp and the plot axis px.  The marker
\* is not added when parent.calcPoint is missing (AttributeError) or when
\* no plot axis is set (KeyError)
MarkCalculation(mark, cp, px, curves, marks, texts, ov) ==
    IF MarkCalcIndexError(curves, marks)
    THEN [marks |-> marks, texts |-> texts, overlay |-> ov]
    ELSE LET marks1 == IF LastIsCalc(marks) THEN SubSeq(marks, 1, Len(marks) - 1)
                       ELSE marks
             texts1 == IF ov.set /\ ov.at > 0 THEN Without(texts, ov.at) ELSE texts
             point == <<cp.qty[px], YAt(cp.y, 1)>>
         IN  IF mark = "Unchecked" \/ cp.y = NoResult \/ px = ""
             THEN [marks |-> marks1, texts |-> texts1, overlay |-> NoOverlay]
             ELSE [marks |-> Append(marks1, [gid |-> "calc", label |-> "calc",
                                             pts |-> <<point>>]),
                   texts |-> IF mark = "Checked"
                             THEN Append(texts1, LabelPoint(point, "center"))
                             ELSE texts1,
                   overlay |-> IF mark = "Checked"
                               THEN [set |-> TRUE, at |-> Len(texts1) + 1]
                               ELSE NoOverlay]

\* ax.clear() removes the annotation self.overlay still refers to
Cleared(ov) == IF ov.set THEN [set |-> TRUE, at |-> 0] ELSE ov

(* ------------------------------ plot_post ------------------------------ *)
\* ax.plot(p_.x, p_.result, ...) raises for a None entry, for y = None and
\* for x and y of different first dimensions
PlotRaises(p) ==
    \/ p = NoneSlot
    \/ heap[p].result = NoResult
    \/ ResultLen(heap[p].result) # XLen(heap[p].x)

\* number of entries of the cache list drawn before ax.plot raises
DrawnCount ==
    IF \E j \in 1..Len(plots) : PlotRaises(plots[j])
    THEN MinOf({j \in 1..Len(plots) : PlotRaises(plots[j])}) - 1
    ELSE Len(plots)

\* str(v_) of a quantity: the decimal digits of the value
Digits == <<"1", "2", "3", "4", "5">>
StrOf(v) == Digits[v]

\* ', '.join(texts)
RECURSIVE Join(_)
Join(texts) ==
    IF texts = << >> THEN ""
    ELSE IF Len(texts) = 1 THEN texts[1]
    ELSE texts[1] \o ", " \o Join(Tail(texts))

\* a faulty variant of legendText: every entry of qty is put into the text
LegendTextAll(qty, lk) ==
    LET ks == SelectSeq(Keys, LAMBDA k : k \in DOMAIN qty)
    IN  Join([i \in 1..Len(ks) |-> StrOf(qty[ks[i]])])

\* legendText(qty): the entries of qty whose key is in self.legendKeys, in
\* the order of qty, which is the order of the inputs of the model
LegendText(qty, lk) ==
    LET ks == SelectSeq(Keys, LAMBDA k : k \in DOMAIN qty /\ k \in Range(lk))
    IN  Join([i \in 1..Len(ks) |-> StrOf(qty[ks[i]])])

\* what one ax.plot call is given: the entry, its result and its label
PlotArg(p) ==
    [slot |-> p,
     y |-> IF p = NoneSlot THEN NoResult ELSE heap[p].result,
     label |-> IF p = NoneSlot THEN "" ELSE LegendText(heap[p].qty, legendKeys)]

\* the completed signal of worker w arrives in the GUI thread: plot_post
PlotPost(w) ==
    /\ mainPc = "idle"
    /\ workers[w].phase = "emitted"
    /\ workers' = [workers EXCEPT ![w].phase = "done"]
    /\ LET drawn == DrawnCount
           tried == IF drawn < Len(plots) THEN drawn + 1 ELSE drawn
           curves == [j \in 1..drawn |-> PlotArg(plots[j])]
       IN  /\ plotCalls' = [j \in 1..tried |-> PlotArg(plots[j])]
           /\ axLines' = curves
           /\ IF drawn < Len(plots)
              THEN \* ax.plot has raised: error(...)
                   /\ statusMsg' = "Fehler in Modellrueckgabe"
                   /\ axMarks' = << >>
                   /\ axTexts' = << >>
                   /\ overlay' = Cleared(overlay)
              ELSE LET ext == MarkExtremum(curves, plotMin, plotMax)
                       mc == MarkCalculation(plotCalc, calcPoint, plotX, curves,
                                             ext.marks, ext.texts, Cleared(overlay))
                   IN  /\ statusMsg' = statusMsg
                       /\ axMarks' = mc.marks
                       /\ axTexts' = mc.texts
                       /\ overlay' = mc.overlay
    \* plot_isBusy(False)
    /\ plotBtn' = TRUE
    /\ plotState' = 0
    /\ UNCHANGED <<pageVars, inputVars, cacheVars, mainVars, histVars, checkVars>>
    /\ UNCHANGED libVars

(* ---------------------- the handlers of the page ----------------------- *)
\* a faulty variant of plot_updatePending: the state indicator is set before
\* checkInputs is called
UpdatePendingEager(inputs, px) ==
    IF CheckRaises(inputs)
    THEN /\ plotBtn' = BtnAfterRaise(inputs, plotBtn)
         /\ statusMsg' = MsgAfterRaise(inputs, statusMsg)
         /\ plotState' = 2
         /\ UNCHANGED plotInputQtys
    ELSE /\ plotInputQtys' = CheckInputs(inputs)
         /\ plotBtn' = BtnAfterCheck(px)
         /\ statusMsg' = ""
         /\ plotState' = 2

\* plot_updatePending: checkInputs of the plot fields, state indicator 2
\* (when checkInputs raises, the snapshot and the indicator are not reached)
UpdatePending(inputs, px) ==
    IF CheckRaises(inputs)
    THEN /\ plotBtn' = BtnAfterRaise(inputs, plotBtn)
         /\ statusMsg' = MsgAfterRaise(inputs, statusMsg)
         /\ UNCHANGED <<plotInputQtys, plotState>>
    ELSE /\ plotInputQtys' = CheckInputs(inputs)
         /\ plotBtn' = BtnAfterCheck(px)
         /\ statusMsg' = ""
         /\ plotState' = 2

\* on_plotEdit_finished: a plot field loses the focus holding the text t
EditFinished(k, t) ==
    /\ mainPc = "idle"
    /\ tabActive
    /\ k \notin edited
    /\ edited' = edited \cup {k}
    /\ plotInputs' = [plotInputs EXCEPT ![k] = t]
    /\ UpdatePending(plotInputs', plotX)
    /\ UNCHANGED <<pageVars, option, plotX, plotNumOfPts, cacheVars, workers,
                   mainVars, axVars, checkVars, histVars>>
    /\ UNCHANGED libVars

\* on_plotEdit_finished of the plot field of the axis input, which loses
\* the focus holding another text t than before
AxisEditFinished(t) ==
    /\ mainPc = "idle"
    /\ tabActive
    /\ plotX # ""
    /\ t # plotInputs[plotX]
    /\ plotInputs' = [plotInputs EXCEPT ![plotX] = t]
    /\ UpdatePending(plotInputs', plotX)
    /\ UNCHANGED <<pageVars, option, plotX, plotNumOfPts, edited, cacheVars,
                   workers, mainVars, axVars, checkVars, histVars>>
    /\ UNCHANGED libVars

\* Return in a plot field holding the text t: returnPressed reaches
\* on_plotBtn_clicked before editingFinished reaches on_plotEdit_finished
ReturnPressed(k, t) ==
    /\ mainPc = "idle"
    /\ tabActive
    /\ k \notin edited
    /\ edited' = edited \cup {k}
    /\ plotInputs' = [plotInputs EXCEPT ![k] = t]
    /\ IF plotX # ""
       THEN /\ PlotEnter(plotInputQtys, option, plotX, plotNumOfPts, "return")
            /\ UNCHANGED <<plotInputQtys, statusMsg>>
       ELSE /\ UpdatePending(plotInputs', plotX)
            /\ UNCHANGED <<cacheVars, workers, mainVars, histVars>>
    /\ UNCHANGED <<pageVars, option, plotX, plotNumOfPts, axVars, checkVars>>
    /\ UNCHANGED libVars

\* on_plotBtn_clicked, by a click on the enabled button
PlotBtnClicked ==
    /\ mainPc = "idle"
    /\ tabActive
    /\ plotBtn
    /\ plotX # ""
    /\ PlotEnter(plotInputQtys, option, plotX, plotNumOfPts, "none")
    /\ UNCHANGED <<pageVars, inputVars, statusMsg, axVars, checkVars>>
    /\ UNCHANGED libVars

\* plotNumOfPts.valueChanged: plot_updatePending
PtsChanged(n) ==
    /\ mainPc = "idle"
    /\ tabActive
    /\ "points" \notin edited
    /\ n # plotNumOfPts
    /\ edited' = edited \cup {"points"}
    /\ plotNumOfPts' = n
    /\ UpdatePending(plotInputs, plotX)
    /\ UNCHANGED <<pageVars, plotInputs, option, plotX, cacheVars, workers,
                   mainVars, axVars, checkVars, histVars>>
    /\ UNCHANGED libVars

\* on_calcEdit_finished: the calculator field of input k loses the focus
\* holding the value v
CalcEditFinished(k, v) ==
    /\ mainPc = "idle"
    /\ tabActive
    /\ calcInputs' = [calcInputs EXCEPT ![k] = <<v>>]
    /\ IF CheckRaises(calcInputs')
       THEN /\ plotBtn' = BtnAfterRaise(calcInputs', plotBtn)
            /\ statusMsg' = MsgAfterRaise(calcInputs', statusMsg)
            /\ UNCHANGED <<calcInputQtys, calcPoint, axMarks, axTexts, overlay>>
       ELSE /\ calcInputQtys' = CheckInputs(calcInputs')
            /\ plotBtn' = BtnAfterCheck(plotX)
            /\ statusMsg' = ""
            /\ IF CalcRaises(calcInputQtys', option, plotX)
               THEN \* calc() raises: the handler ends
                    UNCHANGED <<calcPoint, axMarks, axTexts, overlay>>
               ELSE \* on_plotCalc_stateChanged(plotCalc.checkState())
                    LET cp == CalcPointOf(calcInputQtys', option, plotX)
                        mc == MarkCalculation(plotCalc, cp, plotX, axLines,
                                              axMarks, axTexts, overlay)
                    IN  /\ calcPoint' = cp
                        /\ axMarks' = mc.marks
                        /\ axTexts' = mc.texts
                        /\ overlay' = mc.overlay
    /\ UNCHANGED <<tabActive, existingPlots, inputVars, plotState, cacheVars,
                   workers, mainVars, plotCalls, axLines, checkVars, histVars>>
    /\ UNCHANGED libVars

\* plotMin.stateChanged, by a click on the check box: plot_updatePending
MinChanged ==
    /\ mainPc = "idle"
    /\ tabActive
    /\ plotMin' = Clicked(plotMin)
    /\ UpdatePending(plotInputs, plotX)
    /\ UNCHANGED <<pageVars, plotInputs, option, plotX, plotNumOfPts, edited,
                   cacheVars, workers, mainVars, axVars, plotMax, plotCalc,
                   histVars>>
    /\ UNCHANGED libVars

\* plotMax.stateChanged, by a click on the check box: plot_updatePending
MaxChanged ==
    /\ mainPc = "idle"
    /\ tabActive
    /\ plotMax' = Clicked(plotMax)
    /\ UpdatePending(plotInputs, plotX)
    /\ UNCHANGED <<pageVars, plotInputs, option, plotX, plotNumOfPts, edited,
                   cacheVars, workers, mainVars, axVars, plotMin, plotCalc,
                   histVars>>
    /\ UNCHANGED libVars

\* on_plotCalc_stateChanged, by a click on the check box: markCalculation
\* and canvas.draw()
CalcStateChanged ==
    /\ mainPc = "idle"
    /\ tabActive
    /\ plotCalc' = Clicked(plotCalc)
    /\ LET mc == MarkCalculation(plotCalc', calcPoint, plotX, axLines,
                                 axMarks, axTexts, overlay)
       IN  /\ axMarks' = mc.marks
           /\ axTexts' = mc.texts
           /\ overlay' = mc.overlay
    /\ UNCHANGED <<pageVars, inputVars, guiVars, cacheVars, workers, mainVars,
                   plotCalls, axLines, plotMin, plotMax, histVars>>
    /\ UNCHANGED libVars

\* on_plotXCombo_changed: the user selects the enabled entry k of the axis
\* combo box (one selection per run of the model)
AxisChanged(k) ==
    /\ mainPc = "idle"
    /\ tabActive
    /\ "axis" \notin edited
    /\ k # plotX
    /\ InputRelevance(option, k)
    /\ edited' = edited \cup {"axis"}
    /\ plotX' = k
    /\ UpdatePending(plotInputs, k)
    /\ UNCHANGED <<pageVars, plotInputs, option, plotNumOfPts, cacheVars,
                   workers, mainVars, axVars, checkVars, histVars>>
    /\ UNCHANGED libVars

\* update_rowVisibility: the axis is reset when its input is not applicable
AxisAfter(opt, px) == IF px # "" /\ ~InputRelevance(opt, px) THEN "" ELSE px

\* on_optionCombos_changed of the output combo box
OutputChanged(o) ==
    /\ mainPc = "idle"
    /\ tabActive
    /\ o # option.output
    /\ LET opt2 == [option EXCEPT !.output = o]
           px2 == AxisAfter(opt2, plotX)
           reset == px2 # plotX
       IN  /\ option' = opt2
           /\ plotX' = px2
           /\ IF reset /\ CheckRaises(plotInputs)
              THEN \* checkInputs raises in plot_updatePending: the handler ends
                   /\ plotBtn' = BtnAfterRaise(plotInputs, plotBtn)
                   /\ statusMsg' = MsgAfterRaise(plotInputs, statusMsg)
                   /\ UNCHANGED <<plotInputQtys, plotState, calcPoint, cacheVars,
                                  workers, mainVars, histVars>>
              ELSE IF CalcRaises(calcInputQtys, opt2, px2)
              THEN \* calc() raises: the handler ends
                   /\ plotInputQtys' = IF reset THEN CheckInputs(plotInputs)
                                       ELSE plotInputQtys
                   /\ plotBtn' = IF reset THEN BtnAfterCheck(px2) ELSE plotBtn
                   /\ plotState' = IF reset THEN 2 ELSE plotState
                   /\ statusMsg' = IF reset THEN "" ELSE statusMsg
                   /\ UNCHANGED <<calcPoint, cacheVars, workers, mainVars, histVars>>
              ELSE IF px2 = ""
              THEN \* on_plotBtn_clicked without an axis: no plot
                   /\ plotInputQtys' = IF reset THEN CheckInputs(plotInputs)
                                       ELSE plotInputQtys
                   /\ calcPoint' = CalcPointOf(calcInputQtys, opt2, px2)
                   /\ plotBtn' = IF reset THEN FALSE ELSE plotBtn
                   /\ plotState' = IF reset THEN 2 ELSE plotState
                   /\ statusMsg' = IF reset THEN "" ELSE statusMsg
                   /\ UNCHANGED <<cacheVars, workers, mainVars, histVars>>
              ELSE /\ plotInputQtys' = plotInputQtys
                   /\ calcPoint' = CalcPointOf(calcInputQtys, opt2, px2)
                   /\ PlotEnter(plotInputQtys, opt2, px2, plotNumOfPts, "none")
                   /\ UNCHANGED statusMsg
    /\ UNCHANGED <<calcVars, tabActive, existingPlots, plotInputs,
                   plotNumOfPts, edited, axVars, checkVars>>
    /\ UNCHANGED libVars

\* on_tab_changed, first visit of the page: calc() and plot()
TabEnter ==
    /\ mainPc = "idle"
    /\ ~tabActive
    /\ tabActive' = TRUE
    /\ IF CalcRaises(calcInputQtys, option, plotX)
       THEN /\ statusMsg' = ""
            /\ UNCHANGED <<calcPoint, plotBtn, plotState, cacheVars, workers,
                           mainVars, histVars>>
       ELSE /\ calcPoint' = CalcPointOf(calcInputQtys, option, plotX)
            /\ PlotEnter(plotInputQtys, option, plotX, plotNumOfPts, "tab")
            /\ statusMsg' = ""
    /\ UNCHANGED <<calcVars, existingPlots, inputVars, axVars, checkVars>>
    /\ UNCHANGED libVars

\* a faulty variant of on_tab_changed: the page is calculated and plotted
\* whenever the user comes back to it
TabRetryAlways ==
    /\ mainPc = "idle"
    /\ tabActive
    /\ IF CalcRaises(calcInputQtys, option, plotX)
       THEN /\ statusMsg' = ""
            /\ UNCHANGED <<calcPoint, plotBtn, plotState, cacheVars, workers,
                           mainVars, histVars>>
       ELSE /\ calcPoint' = CalcPointOf(calcInputQtys, option, plotX)
            /\ PlotEnter(plotInputQtys, option, plotX, plotNumOfPts, "tab")
            /\ statusMsg' = ""
    /\ UNCHANGED <<calcVars, tabActive, existingPlots, inputVars, axVars, checkVars>>
    /\ UNCHANGED libVars

\* on_tab_changed, the user comes back from another tab to the page whose
\* existingPlots is not set, because calc() has raised in every visit so
\* far: calc() and plot() again
TabRetry ==
    /\ mainPc = "idle"
    /\ tabActive
    /\ ~existingPlots
    /\ IF CalcRaises(calcInputQtys, option, plotX)
       THEN /\ statusMsg' = ""
            /\ UNCHANGED <<calcPoint, plotBtn, plotState, cacheVars, workers,
                           mainVars, histVars>>
       ELSE /\ calcPoint' = CalcPointOf(calcInputQtys, option, plotX)
            /\ PlotEnter(plotInputQtys, option, plotX, plotNumOfPts, "tab")
            /\ statusMsg' = ""
    /\ UNCHANGED <<calcVars, tabActive, existingPlots, inputVars, axVars, checkVars>>
    /\ UNCHANGED libVars

\* on_tab_changed, the user comes back to the page from another tab: the
\* message is cleared; existingPlots is set, so nothing is calculated
TabRevisit ==
    /\ mainPc = "idle"
    /\ tabActive
    /\ existingPlots
    /\ statusMsg # ""
    /\ statusMsg' = ""
    /\ UNCHANGED <<pageVars, inputVars, plotBtn, plotState, cacheVars, workers,
                   mainVars, axVars, checkVars, histVars>>
    /\ UNCHANGED libVars

(* --------------------------- specifications ---------------------------- *)
\* the user acts at any moment, also while workers run
Next ==
    \/ TabEnter
    \/ TabRevisit
    \/ PlotBtnClicked
    \/ \E k \in EditKeys, t \in RaceTexts : EditFinished(k, t)
    \/ \E k \in EditKeys, t \in RaceTexts : ReturnPressed(k, t)
    \/ \E o \in Range(OutputChoices) : OutputChanged(o)
    \/ PlotLoop
    \/ PlotStart
    \/ PlotFail
    \/ \E w \in 1..Len(workers) : WorkerBegin(w)
    \/ \E w \in 1..Len(workers) : WorkerNext(w)
    \/ \E w \in 1..Len(workers) : WorkerCalc(w)
    \/ \E w \in 1..Len(workers) : PlotPost(w)

Spec == Init /\ [][Next]_vars

\* no worker has a completion outstanding
Quiet == \A w \in 1..Len(workers) : ~InFlight(workers[w])

\* the user waits for the running batch before acting, and types any text
NextPre ==
    \/ Quiet /\ TabEnter
    \/ Quiet /\ TabRevisit
    \/ Quiet /\ PlotBtnClicked
    \/ \E k \in EditKeys, t \in Texts : Quiet /\ EditFinished(k, t)
    \/ \E k \in EditKeys, t \in Texts : Quiet /\ ReturnPressed(k, t)
    \/ \E n \in PointChoices : Quiet /\ PtsChanged(n)
    \/ \E o \in Range(OutputChoices) : Quiet /\ OutputChanged(o)
    \/ PlotLoop
    \/ PlotStart
    \/ PlotFail
    \/ \E w \in 1..Len(workers) : WorkerBegin(w)
    \/ \E w \in 1..Len(workers) : WorkerNext(w)
    \/ \E w \in 1..Len(workers) : WorkerCalc(w)
    \/ \E w \in 1..Len(workers) : PlotPost(w)

SpecPre == Init /\ [][NextPre]_vars

\* the user waits for the running batch and types texts of DimTexts, among
\* them texts of a foreign dimension, also into the calculator
NextDim ==
    \/ Quiet /\ TabEnter
    \/ Quiet /\ TabRevisit
    \/ Quiet /\ PlotBtnClicked
    \/ \E k \in EditKeys, t \in DimTexts : Quiet /\ EditFinished(k, t)
    \/ \E k \in EditKeys, t \in DimTexts : Quiet /\ ReturnPressed(k, t)
    \/ \E v \in CalcChoices : Quiet /\ CalcEditFinished("a", v)
    \/ \E o \in Range(OutputChoices) : Quiet /\ OutputChanged(o)
    \/ PlotLoop
    \/ PlotStart
    \/ PlotFail
    \/ \E w \in 1..Len(workers) : WorkerBegin(w)
    \/ \E w \in 1..Len(workers) : WorkerNext(w)
    \/ \E w \in 1..Len(workers) : WorkerCalc(w)
    \/ \E w \in 1..Len(workers) : PlotPost(w)

SpecDim == Init /\ [][NextDim]_vars

\* the user waits for the running batch and types texts of ParseTexts, among
\* them texts Q_ cannot parse, also into the calculator
NextParse ==
    \/ Quiet /\ TabEnter
    \/ Quiet /\ TabRevisit
    \/ Quiet /\ PlotBtnClicked
    \/ \E k \in EditKeys, t \in ParseTexts : Quiet /\ EditFinished(k, t)
    \/ \E k \in EditKeys, t \in ParseTexts : Quiet /\ ReturnPressed(k, t)
    \/ \E v \in CalcParseChoices : Quiet /\ CalcEditFinished("a", v)
    \/ \E o \in Range(OutputChoices) : Quiet /\ OutputChanged(o)
    \/ PlotLoop
    \/ PlotStart
    \/ PlotFail
    \/ \E w \in 1..Len(workers) : WorkerBegin(w)
    \/ \E w \in 1..Len(workers) : WorkerNext(w)
    \/ \E w \in 1..Len(workers) : WorkerCalc(w)
    \/ \E w \in 1..Len(workers) : PlotPost(w)

SpecParse == Init /\ [][NextParse]_vars

\* the user changes the plot axis and the output at any moment, also while
\* workers run
NextAxis ==
    \/ TabEnter
    \/ TabRevisit
    \/ PlotBtnClicked
    \/ \E k \in KeySet : AxisChanged(k)
    \/ \E o \in Range(OutputChoices) : OutputChanged(o)
    \/ PlotLoop
    \/ PlotStart
    \/ PlotFail
    \/ \E w \in 1..Len(workers) : WorkerBegin(w)
    \/ \E w \in 1..Len(workers) : WorkerNext(w)
    \/ \E w \in 1..Len(workers) : WorkerCalc(w)
    \/ \E w \in 1..Len(workers) : PlotPost(w)

SpecAxis == Init /\ [][NextAxis]_vars

\* the values typed into the calculator field of the axis input
MarkChoices == {1, 2}

\* the user sets the check boxes of the markers, edits the calculator and
\* plots, waiting for every batch
NextMark ==
    \/ Quiet /\ TabEnter
    \/ Quiet /\ TabRevisit
    \/ Quiet /\ PlotBtnClicked
    \/ Quiet /\ MinChanged
    \/ Quiet /\ MaxChanged
    \/ Quiet /\ CalcStateChanged
    \/ \E v \in MarkChoices : Quiet /\ CalcEditFinished(ModelPlotX, v)
    \/ \E o \in Range(OutputChoices) : Quiet /\ OutputChanged(o)
    \/ PlotLoop
    \/ PlotStart
    \/ PlotFail
    \/ \E w \in 1..Len(workers) : WorkerBegin(w)
    \/ \E w \in 1..Len(workers) : WorkerNext(w)
    \/ \E w \in 1..Len(workers) : WorkerCalc(w)
    \/ \E w \in 1..Len(workers) : PlotPost(w)

SpecMark == Init /\ [][NextMark]_vars

\* the texts typed into the plot fields: one value, two values
LegendTexts == {<<2>>, <<2, 1>>}

\* the user edits the plot fields, changes the axis and the output and
\* plots, waiting for every batch
NextLegend ==
    \/ Quiet /\ TabEnter
    \/ Quiet /\ TabRevisit
    \/ Quiet /\ PlotBtnClicked
    \/ \E k \in EditKeys, t \in LegendTexts : Quiet /\ EditFinished(k, t)
    \/ \E k \in EditKeys, t \in LegendTexts : Quiet /\ ReturnPressed(k, t)
    \/ \E k \in KeySet : Quiet /\ AxisChanged(k)
    \/ \E o \in Range(OutputChoices) : Quiet /\ OutputChanged(o)
    \/ PlotLoop
    \/ PlotStart
    \/ PlotFail
    \/ \E w \in 1..Len(workers) : WorkerBegin(w)
    \/ \E w \in 1..Len(workers) : WorkerNext(w)
    \/ \E w \in 1..Len(workers) : WorkerCalc(w)
    \/ \E w \in 1..Len(workers) : PlotPost(w)

SpecLegend == Init /\ [][NextLegend]_vars

\* the representative values of input a in the model files: at the mean of
\* the first the model function raises
DefaultChoices == {<<1>>, <<2>>}

\* the values typed into the calculator field of input a
TabChoices == {1, 2}

\* the page of a model file whose input a has one of DefaultChoices, in a
\* MainWidget that has loaded this file
InitTab ==
    /\ \E d \in DefaultChoices : plotInputs = [DefaultValues EXCEPT !.a = d]
    /\ plotInputQtys = CheckInputs(plotInputs)
    /\ calcInputs = [k \in KeySet |-> <<MeanOf(plotInputs[k])>>]
    /\ calcInputQtys = CheckInputs(calcInputs)
    /\ option = [output |-> OutputChoices[1]]
    /\ plotX = ModelPlotX
    /\ plotNumOfPts = NUM_OF_DATAPOINTS
    /\ plotBtn = BtnAfterCheck(ModelPlotX)
    /\ plotState = 0
    /\ statusMsg = ""
    /\ existingPlots = FALSE
    /\ tabActive = FALSE
    /\ calcPoint = [qty |-> << >>, y |-> NoResult]
    /\ heap = << >>
    /\ plots = << >>
    /\ legendKeys = << >>
    /\ workers = << >>
    /\ mainPc = "idle"
    /\ loopN = 0
    /\ cont = "none"
    /\ pendingEx = ""
    /\ plotCalls = << >>
    /\ axLines = << >>
    /\ axMarks = << >>
    /\ axTexts = << >>
    /\ overlay = NoOverlay
    /\ plotMin = "Unchecked"
    /\ plotMax = "Unchecked"
    /\ plotCalc = "Unchecked"
    /\ edited = {}
    /\ prevCall = NoCall
    /\ before = << >>
    /\ again = FALSE
    /\ modelPaths = <<[stem |-> <<"B">>, content |-> Complete]>>
    /\ loadN = 1
    /\ loadPc = "done"
    /\ tabs = <<<<"B">>>>
    /\ reports = << >>
    /\ loaded = {<<"B">>}
    /\ NoPiecewise
    /\ NoSeries
    /\ NoIntegrate

\* the user goes from tab to tab, edits the calculator, changes the axis
\* and the output and plots, waiting for every batch
NextTab ==
    \/ Quiet /\ TabEnter
    \/ Quiet /\ TabRetry
    \/ Quiet /\ TabRevisit
    \/ Quiet /\ PlotBtnClicked
    \/ \E v \in TabChoices : Quiet /\ CalcEditFinished("a", v)
    \/ \E k \in KeySet : Quiet /\ AxisChanged(k)
    \/ \E o \in Range(OutputChoices) : Quiet /\ OutputChanged(o)
    \/ PlotLoop
    \/ PlotStart
    \/ PlotFail
    \/ \E w \in 1..Len(workers) : WorkerBegin(w)
    \/ \E w \in 1..Len(workers) : WorkerNext(w)
    \/ \E w \in 1..Len(workers) : WorkerCalc(w)
    \/ \E w \in 1..Len(workers) : PlotPost(w)

SpecTab == InitTab /\ [][NextTab]_vars

\* the texts typed into the plot field of the axis input: they differ in
\* the first, in the last or in a value in between
AxisTexts == {<<1, 2>>, <<1, 1, 2>>, <<1, 2, 2>>, <<2, 1, 2>>, <<1, 2, 1>>}

\* the user edits the plot field of the axis input and those of the other
\* inputs, changes the point count and plots, waiting for every batch
NextSample ==
    \/ Quiet /\ TabEnter
    \/ Quiet /\ TabRevisit
    \/ Quiet /\ PlotBtnClicked
    \/ \E t \in AxisTexts : Quiet /\ AxisEditFinished(t)
    \/ \E k \in EditKeys, t \in LegendTexts : Quiet /\ EditFinished(k, t)
    \/ \E n \in PointChoices : Quiet /\ PtsChanged(n)
    \/ PlotLoop
    \/ PlotStart
    \/ PlotFail
    \/ \E w \in 1..Len(workers) : WorkerBegin(w)
    \/ \E w \in 1..Len(workers) : WorkerNext(w)
    \/ \E w \in 1..Len(workers) : WorkerCalc(w)
    \/ \E w \in 1..Len(workers) : PlotPost(w)

SpecSample == Init /\ [][NextSample]_vars

(* ------------------------------ properties ----------------------------- *)
\* the worker started by the plot() call that returned last
LastWorker(w) == prevCall.w = w /\ mainPc = "idle"

\* C1: after a batch has completed, a plot() call with the same inputs,
\* options, axis and point count replaces no entry of the cache list, every
\* entry keeps its PlotData object and its result, and the worker the call
\* starts evaluates none of the PlotData objects that existed at the call
\* (none at all while no later plot() call has changed the cache list).
C1_RepeatedCallKeepsCache ==
    /\ [][again' => /\ plots' = plots
                    /\ Len(heap') = Len(heap)
                    /\ mainPc' # "fail"
                    /\ \A j \in 1..Len(plots) :
                          /\ plots[j] # NoneSlot
                          /\ heap[plots[j]].result # NoResult
                          /\ heap'[plots[j]].result = heap[plots[j]].result]_vars
    /\ [](\A w \in 1..Len(workers) :
             workers[w].again =>
                /\ \A p \in workers[w].evals : p > workers[w].base
                /\ LastWorker(w) => workers[w].evals = {})

\* C1 witness: the worker of a repeated call has run to its end and its
\* completion has been handled, and no later call has touched the cache
C1_Witness ==
    \E w \in 1..Len(workers) :
        workers[w].again /\ workers[w].phase = "done" /\ LastWorker(w)

\* C2: at most one worker has its completion outstanding at any time.
C2_OneBatchInFlight ==
    Cardinality({w \in 1..Len(workers) : InFlight(workers[w])}) <= 1

\* C3: a plot request made while a batch is busy starts no batch before the
\* running batch has completed: no CalcWorker is started in a state where an
\* earlier one has its completion outstanding.
C3_FollowUpAfterCompletion ==
    [][(\E w \in 1..Len(workers) : InFlight(workers[w]))
          => Len(workers') = Len(workers)]_vars

\* C4: every ax.plot call of plot_post is given an entry of the cache list
\* that has a result.
C4_RenderedSlotsComputed ==
    \A j \in 1..Len(plotCalls) : plotCalls[j].y # NoResult

\* C5: every started worker emits completed, also when the model raises:
\* run() never ends by the exception of the model function.
C5_CompletionDelivered ==
    \A w \in 1..Len(workers) : workers[w].raised # "model"

\* C6: when the model function has raised during a batch and nothing is
\* left to be delivered, the busy indicator is cleared and the plot button
\* is enabled.
C6_FailureLeavesBusy ==
    (/\ mainPc = "idle"
     /\ Quiet
     /\ \E w \in 1..Len(workers) : workers[w].raised = "model")
    => (plotState # 1 /\ plotBtn)

\* worker w has moved on in this step
Moved(w) ==
    \/ workers'[w].phase # workers[w].phase
    \/ workers'[w].i # workers[w].i

\* C7: a worker starts to evaluate an entry only when it has found the
\* result of that entry empty; an entry that has a result is passed over
\* with every result left as it was; a result changes only by the worker
\* that evaluates that entry, and a run that ends by an exception changes
\* none, so the results computed before a batch fails stay.
C7_WorkerEvaluatesEmptyOnly ==
    [][/\ \A w \in 1..Len(workers) :
            LET wk == workers[w]
                wk2 == workers'[w]
                lst == ListOf(wk)
            IN  /\ (wk.phase = "iter" /\ wk2.phase = "calc") =>
                       /\ heap[wk2.target].result = NoResult
                       /\ wk2.target = lst[wk.i + 1]
                       /\ heap' = heap
                /\ (/\ wk.phase = "iter" /\ Moved(w)
                    /\ wk.i < Len(lst)
                    /\ lst[wk.i + 1] # NoneSlot
                    /\ heap[lst[wk.i + 1]].result # NoResult) =>
                       /\ wk2.phase = "iter"
                       /\ wk2.i = wk.i + 1
                       /\ wk2.evals = wk.evals
                       /\ heap' = heap
                /\ wk2.evals # wk.evals =>
                       /\ wk.phase = "calc"
                       /\ wk2.evals = wk.evals \cup {wk.target}
                /\ (wk.phase # "dead" /\ wk2.phase = "dead") => heap' = heap
       /\ \A p \in 1..Len(heap) :
            heap'[p].result # heap[p].result =>
                \E w \in 1..Len(workers) :
                    /\ workers[w].phase = "calc"
                    /\ workers[w].target = p
                    /\ workers'[w].phase = "iter"]_vars

\* C7 witness: a batch has failed by the model after it had computed the
\* entry p; the entry has kept its result, and a worker started after the
\* failure has passed over p without evaluating it and evaluates an entry
\* behind it
C7_Witness ==
    \E w \in 1..Len(workers), v \in 1..Len(workers) :
        /\ w \in workers[v].failed
        /\ workers[w].raised = "model"
        /\ workers[v].phase = "calc"
        /\ workers[v].i >= 1
        /\ LET p == ListOf(workers[v])[1]
           IN  /\ p # NoneSlot
               /\ p \in workers[w].evals
               /\ p \notin workers[v].evals
               /\ p <= workers[v].base
               /\ heap[p].result # NoResult

\* the stored triple of the PlotData p, and the candidate triple of curve
\* n (counted from 1) for the inputs plot_pre reads
StoredTriple(p) == <<heap[p].x, heap[p].qty, heap[p].opt>>

CandidateTriple(n) ==
    <<[first |-> plotInputQtys[plotX][1],
       last |-> plotInputQtys[plotX][Len(plotInputQtys[plotX])],
       n |-> plotNumOfPts],
      [k \in {j \in KeySet : j # plotX /\ InputRelevance(option, j)} |->
          IF Cardinality(Range(plotInputQtys[k])) = 1
          THEN plotInputQtys[k][1] ELSE plotInputQtys[k][n]],
      option>>

\* plot_pre has gone through the whole cache list without an exception
PreDone == mainPc = "loop" /\ loopN = Len(plots)

\* the previous plot() call has built the cache list this call started from
HasPrev == prevCall.w # 0

\* the applicable non-axis inputs of this call
Applicable == {k \in KeySet : k # plotX /\ InputRelevance(option, k)}

\* input k has one distinct value in the snapshot pq
Broadcast(pq, k) == Cardinality(Range(pq[k])) = 1

\* input k has more than one distinct value in the snapshot pq
Varying(pq, k) == Cardinality(Range(pq[k])) > 1

\* this call differs from the previous one in an option, in the point count
\* or in the value of an input that is broadcast in both
AllCurvesChanged ==
    \/ prevCall.snap.opt # option
    \/ prevCall.snap.npts # plotNumOfPts
    \/ /\ prevCall.snap.opt = option
       /\ prevCall.snap.px = plotX
       /\ \E k \in Applicable :
            /\ Broadcast(prevCall.snap.pq, k)
            /\ Broadcast(plotInputQtys, k)
            /\ prevCall.snap.pq[k][1] # plotInputQtys[k][1]

\* this call differs from the previous one in the n-th value of the varying
\* input k and in nothing else
OnlyNthChanged(k, n) ==
    /\ prevCall.snap.opt = option
    /\ prevCall.snap.px = plotX
    /\ prevCall.snap.npts = plotNumOfPts
    /\ k \in Applicable
    /\ Varying(prevCall.snap.pq, k)
    /\ Varying(plotInputQtys, k)
    /\ n \in 1..Len(plotInputQtys[k])
    /\ Len(prevCall.snap.pq[k]) = Len(plotInputQtys[k])
    /\ prevCall.snap.pq[k][n] # plotInputQtys[k][n]
    /\ \A j \in KeySet :
          IF j = k
          THEN \A i \in 1..Len(plotInputQtys[k]) :
                  i # n => prevCall.snap.pq[k][i] = plotInputQtys[k][i]
          ELSE prevCall.snap.pq[j] = plotInputQtys[j]

\* C8: one pass of the loop of plot_pre replaces the entry at index n by a
\* new PlotData without result if and only if the entry is None or its
\* stored triple (sample array, parameters, options) differs by value from
\* the candidate triple of curve n, and touches no other entry; so, against
\* the previous call, a changed option, point count or broadcast value
\* replaces every entry, and a change of the n-th value of a varying input
\* alone replaces the entry n and keeps every other entry.
C8_ReplacedIffTripleDiffers ==
    /\ [][(mainPc = "loop" /\ loopN' = loopN + 1) =>
            LET n == loopN + 1
                p == plots[n]
            IN  /\ IF p = NoneSlot \/ StoredTriple(p) # CandidateTriple(n)
                   THEN /\ plots'[n] > Len(heap)
                        /\ plots'[n] <= Len(heap')
                        /\ <<heap'[plots'[n]].x, heap'[plots'[n]].qty,
                             heap'[plots'[n]].opt>> = CandidateTriple(n)
                        /\ heap'[plots'[n]].result = NoResult
                   ELSE plots'[n] = p
                /\ \A j \in 1..Len(plots) : j # n => plots'[j] = plots[j]
                /\ \A q \in 1..Len(heap) : heap'[q] = heap[q]]_vars
    /\ []((PreDone /\ HasPrev) =>
            /\ AllCurvesChanged =>
                  \A j \in 1..Len(plots) :
                      /\ plots[j] \notin Range(before)
                      /\ heap[plots[j]].result = NoResult
            /\ \A k \in KeySet, n \in 1..MaxLen :
                  OnlyNthChanged(k, n) =>
                      /\ Len(plots) = Len(before)
                      /\ \A j \in 1..Len(plots) :
                            (j = n) <=> (plots[j] # before[j]))

\* C8 witness: plot_pre has ended for a call that differs from the previous
\* one only in the n-th value of a varying input: the entry n is new and
\* another entry, which has its result, is kept
C8_Witness ==
    /\ PreDone
    /\ HasPrev
    /\ \E k \in KeySet, n \in 1..Len(plots), j \in 1..Len(plots) :
          /\ OnlyNthChanged(k, n)
          /\ plots[n] # before[n]
          /\ j # n
          /\ plots[j] = before[j]
          /\ heap[plots[j]].result # NoResult

\* C9: when plot_pre has ended, the length of the cache list is the length
\* of the shortest text among the applicable non-axis inputs that have more
\* than one distinct value, and an input that has one distinct value has
\* that value in the parameters of every entry.
C9_ShortestVaryingInput ==
    PreDone =>
        /\ (\E k \in Applicable : Varying(plotInputQtys, k)) =>
              Len(plots) = MinOf({Len(plotInputQtys[k]) :
                                    k \in {j \in Applicable :
                                             Varying(plotInputQtys, j)}})
        /\ \A k \in Applicable :
              Broadcast(plotInputQtys, k) =>
                  \A j \in 1..Len(plots) :
                      heap[plots[j]].qty[k] = plotInputQtys[k][1]

\* C9 witness: plot_pre has ended for two varying inputs of different
\* lengths, and the cache list has the length of the shorter one
C9_Witness ==
    /\ PreDone
    /\ Len(plots) = 2
    /\ \E k \in Applicable :
          Varying(plotInputQtys, k) /\ Len(plotInputQtys[k]) = 3
    /\ \E k \in Applicable :
          Varying(plotInputQtys, k) /\ Len(plotInputQtys[k]) = 2

\* C10: when no applicable non-axis input has more than one distinct value
\* (and each has a value), plot_pre raises no exception and leaves exactly
\* one entry in the cache list.
C10_NoVariationOneCurve ==
    (/\ mainPc # "idle"
     /\ \A k \in Applicable : Broadcast(plotInputQtys, k))
    => (mainPc # "fail" /\ Len(plots) = 1)

\* this step ends in a checkInputs of the plot fields that raises: a plot
\* field has been left, or Return has been pressed and plot() has returned
PlotCheckRaised ==
    \/ /\ mainPc = "idle" /\ mainPc' = "idle"
       /\ plotInputs' # plotInputs
       /\ CheckRaises(plotInputs')
    \/ /\ mainPc # "idle" /\ mainPc' = "idle"
       /\ cont = "return"
       /\ CheckRaises(plotInputs)

\* this step is a checkInputs of the calculator fields that raises
CalcCheckRaised == calcInputs' # calcInputs /\ CheckRaises(calcInputs')

\* C11: when checkInputs meets a field of a foreign dimension, the plot
\* button is disabled and the exception is shown, and the snapshots of the
\* plot and calculator fields, the PlotData objects with their results, the
\* cache list, the lines on the axes and the state indicator stay as they
\* were (the indicator as plot() has left it, after Return).
C11_ForeignDimensionKeepsState ==
    [][(PlotCheckRaised \/ CalcCheckRaised) =>
          /\ plotBtn' = FALSE
          /\ statusMsg' = DimMsg
          /\ plotInputQtys' = plotInputQtys
          /\ calcInputQtys' = calcInputQtys
          /\ calcPoint' = calcPoint
          /\ heap' = heap
          /\ plots' = plots
          /\ axLines' = axLines
          /\ plotState' = IF mainPc = "fail" THEN 0 ELSE plotState]_vars

\* C11 witness: a plot field holds a text of a foreign dimension after a
\* batch has been rendered: the button is disabled, the message is shown,
\* the snapshot is the valid one and the curves are on the axes
C11_Witness ==
    /\ CheckRaises(plotInputs)
    /\ ~CheckRaises(plotInputQtys)
    /\ statusMsg = DimMsg
    /\ ~plotBtn
    /\ plotState = 0
    /\ axLines # << >>
    /\ \A j \in 1..Len(plots) : heap[plots[j]].result # NoResult

\* C12: while a plot field holds a text of a foreign dimension, no worker
\* is started.
C12_NoBatchWhileForeign ==
    [][(CheckRaises(plotInputs) /\ CheckRaises(plotInputs'))
          => Len(workers') = Len(workers)]_vars

\* C13: the result of a PlotData object is written at most once: a worker
\* completes the assignment p_.result = ... only for an object whose result
\* is empty at that moment.
C13_ResultWrittenOnce ==
    [][\A w \in 1..Len(workers) :
          (/\ workers[w].phase = "calc"
           /\ workers'[w].phase = "iter") =>
              heap[workers[w].target].result = NoResult]_vars

\* this step is a step of the run() of some worker
WorkerRan ==
    \E w \in 1..Len(workers) :
        workers[w].phase \in {"queued", "iter", "calc"} /\ Moved(w)

\* C14: a step of a worker run changes nothing but the result of PlotData
\* objects: the cache list keeps its length and its entries, no object is
\* created, and the sample array, the parameters and the options of every
\* object stay; nothing of the page, of the indicators or of the axes
\* changes.
C14_WorkerWritesResultOnly ==
    [][WorkerRan =>
          /\ plots' = plots
          /\ Len(heap') = Len(heap)
          /\ \A p \in 1..Len(heap) :
                /\ heap'[p].x = heap[p].x
                /\ heap'[p].qty = heap[p].qty
                /\ heap'[p].opt = heap[p].opt
          /\ UNCHANGED <<pageVars, inputVars, guiVars, legendKeys, mainVars,
                         axVars>>]_vars

\* C14 witness: a worker has emitted completed after it has evaluated two
\* entries of the cache list, which hold their results
C14_Witness ==
    \E w \in 1..Len(workers) :
        /\ workers[w].phase = "emitted"
        /\ Cardinality(workers[w].evals) >= 2
        /\ \A p \in workers[w].evals : heap[p].result # NoResult
        /\ workers[w].evals \subseteq Range(plots)

\* the plot axis plot_pre has used for the PlotData object p: the applicable
\* input that is not among the parameters of p
AxisOf(p) ==
    IF \E k \in KeySet : InputRelevance(p.opt, k) /\ k \notin DOMAIN p.qty
    THEN CHOOSE k \in KeySet : InputRelevance(p.opt, k) /\ k \notin DOMAIN p.qty
    ELSE ""

\* C15: what a worker computes for a PlotData object depends only on the
\* sample array, the parameters and the options stored in the object: the
\* evaluation ends as the model function does for these arguments on the
\* axis the object was made for, whatever has been changed since plot()
\* returned.
C15_BatchUsesFrozenState ==
    [][\A w \in 1..Len(workers) :
          (workers[w].phase = "calc" /\ Moved(w)) =>
              LET p == heap[workers[w].target]
                  var == SeriesVar(p.x, p.qty, AxisOf(p))
              IN  IF ModelRaises(var, p.opt)
                  THEN workers'[w].phase = "dead"
                  ELSE /\ workers'[w].phase = "iter"
                       /\ heap'[workers[w].target].result = ModelValue(var, p.opt)]_vars

\* C16: once a valid edit has set the state indicator to pending changes,
\* the indicator leaves that state only by the start of a new plot() call.
C16_PendingUntilNewBatch ==
    [][(plotState = 2 /\ plotState' # 2) =>
          (mainPc = "idle" /\ mainPc' # "idle")]_vars

\* C20: when the rendering of an entry fails in plot_post, the curves the
\* previous cycle has drawn are still on the axes.
C20_FailedRenderKeepsAxes ==
    [][\A w \in 1..Len(workers) :
          (/\ workers[w].phase = "emitted"
           /\ workers'[w].phase = "done"
           /\ axLines # << >>
           /\ \E j \in 1..Len(plots) : PlotRaises(plots[j])) =>
              axLines' = axLines]_vars

\* this step is a plot_post that has drawn every entry of the cache list
Rendered ==
    /\ \E w \in 1..Len(workers) :
          workers[w].phase = "emitted" /\ workers'[w].phase = "done"
    /\ \A j \in 1..Len(plots) : ~PlotRaises(plots[j])

\* the marker lines of the axes that hold the extrema of one kind
SeriesOf(marks, kind) ==
    LET IsKind(m) == m.gid = "extrema" /\ m.label = kind
    IN  SelectSeq(marks, IsKind)

\* the calculated-point markers of the axes
CalcMarkers(marks) ==
    LET IsCalc(m) == m.gid = "calc"
    IN  SelectSeq(marks, IsCalc)

\* the annotations of the axes with the vertical alignment va
LabelsOf(texts, va) ==
    LET IsVa(t) == t.va = va
    IN  SelectSeq(texts, IsVa)

\* i is the smallest index at which ys attains its minimum (maximum)
FirstExtreme(ys, kind, i) ==
    /\ \A k \in 1..Len(ys) : IF kind = "min" THEN ys[i] <= ys[k] ELSE ys[i] >= ys[k]
    /\ \A k \in 1..(i - 1) : ys[k] # ys[i]

\* C17: after a plot_post that has drawn every curve, each extremum kind
\* whose check box is not Unchecked has exactly one marker series; the
\* series has one point for each curve, and the point of curve j is
\* (x[i], y[i]) for the smallest index i at which the y data of the curve
\* attain their minimum (maximum); the series of the minima adds no point
\* to the series of the maxima.
C17_FirstExtremumPerCurve ==
    [][Rendered =>
          \A kind \in {"min", "max"} :
              LET st == IF kind = "min" THEN plotMin ELSE plotMax
                  series == SeriesOf(axMarks', kind)
              IN  st # "Unchecked" =>
                      /\ Len(series) = 1
                      /\ Len(series[1].pts) = Len(axLines')
                      /\ Len(axLines') = Len(plots)
                      /\ \A j \in 1..Len(axLines') :
                            LET line == axLines'[j]
                                ys == YData(line)
                            IN  \E i \in 1..Len(ys) :
                                   /\ series[1].pts[j] =
                                          <<XAt(heap[line.slot].x, i), ys[i]>>
                                   /\ FirstExtreme(ys, kind, i)]_vars

\* C17 witness: two curves are on the axes with the series of their minima
\* and of their maxima; the curves attain the maximum at the first and at
\* the last sample, and the marker is at the first; the minimum is inside
C17_Witness ==
    /\ Len(axLines) = 2
    /\ Len(SeriesOf(axMarks, "min")) = 1
    /\ Len(SeriesOf(axMarks, "max")) = 1
    /\ \A j \in 1..2 :
          LET ys == YData(axLines[j])
              x == heap[axLines[j].slot].x
          IN  /\ ys[1] = ys[Len(ys)]
              /\ SeriesOf(axMarks, "max")[1].pts[j] = <<XAt(x, 1), ys[1]>>
              /\ SeriesOf(axMarks, "min")[1].pts[j][1] > XAt(x, 1)
              /\ SeriesOf(axMarks, "min")[1].pts[j][2] < ys[1]

\* this step has called markCalculation with a calculated point and a plot
\* axis, on axes that hold curves: in a plot_post that has drawn the
\* curves, by a click on the check box, or by an edit of the calculator
CalcMarked ==
    /\ Rendered \/ plotCalc' # plotCalc \/ calcInputQtys' # calcInputQtys
    /\ axLines' # << >>
    /\ plotX' # ""
    /\ calcPoint'.y # NoResult
    /\ ~CalcRaises(calcInputQtys', option', plotX')

\* how many marker lines and annotations a check box in state st asks for,
\* for num points
Asked(st, num) ==
    IF st = "Unchecked" THEN [marks |-> 0, texts |-> 0]
    ELSE IF st = "PartiallyChecked" THEN [marks |-> 1, texts |-> 0]
    ELSE [marks |-> 1, texts |-> num]

\* C18: the check boxes have three states.  After a plot_post that has
\* drawn the curves, for the minima and for the maxima each: Unchecked
\* leaves no marker series and no annotation, PartiallyChecked one marker
\* series and no annotation, Checked one marker series and one annotation
\* for each curve.  After markCalculation the same holds of the calculated
\* point: nothing, the marker alone, the marker and one annotation.
C18_ThreeStateMarking ==
    [][/\ Rendered =>
            /\ Len(SeriesOf(axMarks', "min")) = Asked(plotMin, Len(plots)).marks
            /\ Len(LabelsOf(axTexts', "top")) = Asked(plotMin, Len(plots)).texts
            /\ Len(SeriesOf(axMarks', "max")) = Asked(plotMax, Len(plots)).marks
            /\ Len(LabelsOf(axTexts', "bottom")) = Asked(plotMax, Len(plots)).texts
       /\ CalcMarked =>
            /\ Len(CalcMarkers(axMarks')) = Asked(plotCalc', 1).marks
            /\ Len(LabelsOf(axTexts', "center")) = Asked(plotCalc', 1).texts]_vars

\* C18 witness: the curves are drawn with the minima marked without
\* annotation, the maxima marked and annotated, and the calculated point
\* marked without annotation
C18_Witness ==
    /\ plotMin = "PartiallyChecked"
    /\ plotMax = "Checked"
    /\ plotCalc = "PartiallyChecked"
    /\ plotState = 0
    /\ Len(axLines) = 2
    /\ Len(axMarks) = 3
    /\ Len(axTexts) = 2
    /\ \A i \in 1..Len(axTexts) : axTexts[i].va = "bottom"

\* C19: the axes hold at most one marker of the calculated point and at
\* most one annotation of it, the annotation never without the marker, and
\* self.overlay names that annotation; a step outside plot_post that
\* changes the markers (markCalculation by the check box or by a
\* calculator edit) leaves the curves, the extremum marker series and the
\* annotations of the extrema as they are.
C19_OneCalculatedPoint ==
    /\ [](/\ Len(CalcMarkers(axMarks)) <= 1
          /\ Len(LabelsOf(axTexts, "center")) <= Len(CalcMarkers(axMarks))
          /\ (overlay.set /\ overlay.at > 0) =>
                 /\ overlay.at <= Len(axTexts)
                 /\ axTexts[overlay.at].va = "center")
    /\ [][(/\ axMarks' # axMarks \/ axTexts' # axTexts
           /\ \A w \in 1..Len(workers) : workers'[w].phase = workers[w].phase) =>
              /\ axLines' = axLines
              /\ SeriesOf(axMarks', "min") = SeriesOf(axMarks, "min")
              /\ SeriesOf(axMarks', "max") = SeriesOf(axMarks, "max")
              /\ LabelsOf(axTexts', "top") = LabelsOf(axTexts, "top")
              /\ LabelsOf(axTexts', "bottom") = LabelsOf(axTexts, "bottom")]_vars

\* C19 witness: the calculator has been edited, and the axes hold the
\* curves, both extremum series with their annotations, and one marker
\* with one annotation at the calculated point of the edited value
C19_Witness ==
    /\ calcInputQtys[ModelPlotX] # <<MeanOf(DefaultValues[ModelPlotX])>>
    /\ plotCalc = "Checked"
    /\ Len(axLines) = 2
    /\ Len(SeriesOf(axMarks, "min")) = 1
    /\ Len(SeriesOf(axMarks, "max")) = 1
    /\ Len(axTexts) = 5
    /\ Len(CalcMarkers(axMarks)) = 1
    /\ CalcMarkers(axMarks)[1].pts[1][1] = calcInputQtys[ModelPlotX][1]
    /\ overlay.set
    /\ axTexts[overlay.at].xy = CalcMarkers(axMarks)[1].pts[1]

\* the inputs of the legend for the plot() call with the snapshot snap: the
\* applicable inputs other than the axis with more than one distinct value
LegendInputs(snap) ==
    SelectSeq(Keys, LAMBDA k : /\ k # snap.px
                               /\ InputRelevance(snap.opt, k)
                               /\ Varying(snap.pq, k))

AllVarying(pq, px) == SelectSeq(Keys, LAMBDA k : k # px /\ Varying(pq, k))

C22_ResultHasSampleLength ==
    \A j \in 1..Len(plots) :
        plots[j] # NoneSlot =>
            \/ heap[plots[j]].result = NoResult
            \/ ResultLen(heap[plots[j]].result) = XLen(heap[plots[j]].x)

\* the entry j of the cache list is the PlotData object this call of plot()
\* found at index j
KeptAt(j) == plots[j] = before[j]

\* the entry j of the cache list is a PlotData object this call of plot()
\* has created, and it has no result
CreatedAt(j) ==
    /\ plots[j] # NoneSlot
    /\ plots[j] \notin Range(before)
    /\ heap[plots[j]].result = NoResult

\* C23: the resize of the cache list in plot_pre cuts a list of m entries
\* to its first n entries, or appends n - m None entries to it, and changes
\* no PlotData object; when plot_pre has ended, every index below m and n
\* holds the object found there if its triple equals the candidate triple
\* (so with the result it has) and a new object without result otherwise,
\* the objects found at the indices from n on are no longer in the list, and
\* the indices from m on hold new objects without result.
C23_ResizeKeepsFirstSlots ==
    /\ [][(mainPc = "idle" /\ mainPc' = "loop") =>
            LET m == Len(plots)
                n == Len(plots')
            IN  /\ heap' = heap
                /\ n <= m => plots' = SubSeq(plots, 1, n)
                /\ n > m => /\ SubSeq(plots', 1, m) = plots
                            /\ \A j \in (m + 1)..n : plots'[j] = NoneSlot]_vars
    /\ [](PreDone =>
            LET m == Len(before)
                n == Len(plots)
            IN  /\ \A j \in 1..n :
                      IF /\ j <= m
                         /\ before[j] # NoneSlot
                         /\ StoredTriple(before[j]) = CandidateTriple(j)
                      THEN KeptAt(j)
                      ELSE CreatedAt(j)
                /\ \A j \in (n + 1)..m :
                      before[j] # NoneSlot => before[j] \notin Range(plots))

\* C23 witness: plot_pre has ended for a call that found three entries and
\* leaves two: the first is the object found there, with its result, the
\* second is new, and the third object found is gone
C23_Witness ==
    /\ PreDone
    /\ Len(before) = 3
    /\ Len(plots) = 2
    /\ KeptAt(1)
    /\ heap[plots[1]].result # NoResult
    /\ CreatedAt(2)
    /\ before[3] \notin Range(plots)

\* the file is not a module that gives a page: load_module raises, a
\* required attribute is missing, or plotX names no input of the model
Faulty(c) ==
    \/ ~c.loads
    \/ \E a \in {"input", "plotX", "calculate"} : a \notin c.attrs
    \/ c.plotX \notin Range(Keys)

\* the name of the file starts with 'f_'
HelperName(name) == Len(name) >= 2 /\ name[1] = "f" /\ name[2] = "_"

\* C24: of the files the loop of MainWidget.__init__ has taken, one whose
\* name starts with 'f_' is not loaded, reported or given a tab; any other
\* that is faulty is reported once and has no tab; any other has its tab and
\* no report, whatever the files around it are.
C24_FaultyModelGetsNoTab ==
    \A i \in 1..loadN :
        LET f == modelPaths[i]
            tabsOf == {j \in 1..Len(tabs) : tabs[j] = f.stem}
            reportsOf == {j \in 1..Len(reports) : reports[j] = f.stem}
        IN  IF HelperName(f.stem)
            THEN f.stem \notin loaded /\ tabsOf = {} /\ reportsOf = {}
            ELSE IF Faulty(f.content)
            THEN Cardinality(reportsOf) = 1 /\ tabsOf = {}
            ELSE Cardinality(tabsOf) = 1 /\ reportsOf = {}

\* C24 witness: the loop has ended for a directory of three files: a model
\* whose plotX names no input, then a helper file, then a complete model;
\* the first is reported and the last has the only tab
C24_Witness ==
    /\ loadPc = "done"
    /\ Len(modelPaths) = 3
    /\ modelPaths[1].content.plotX \notin KeySet
    /\ modelPaths[1].content.loads
    /\ modelPaths[1].content.attrs = Required
    /\ IsHelper(modelPaths[2].stem)
    /\ modelPaths[3].content = Complete
    /\ tabs = <<modelPaths[3].stem>>
    /\ reports = <<modelPaths[1].stem>>

\* Q_ can parse every entry of the text q
Parsable(q) == \A i \in 1..Len(q) : q[i] # Unparsable

\* C25: a text that cannot be parsed does not stay in an input field: when
\* the handler of the edit has ended, the field shows its last valid value
\* again, and the parameter snapshots hold what was parsed from valid texts.
C25_UnparsableTextReverted ==
    \A k \in KeySet :
        /\ Parsable(plotInputs[k])
        /\ Parsable(calcInputs[k])
        /\ Parsable(plotInputQtys[k])
        /\ Parsable(calcInputQtys[k])

\* the length of the quantity q when iterated: 1 for a 0-d quantity
LenOfKey(q) == IF q.ndim = 0 THEN 1 ELSE Len(q.data)

\* L: the largest length among the keys
LongestKey == MaxOf({LenOfKey(pwVar[j]) : j \in 1..Len(pwVar)})

\* the branch function was called once per index below L, in index order,
\* at index i (from 0) with the element i mod n of each key of length n
CalledCyclically ==
    /\ Len(pwCalls) = LongestKey
    /\ \A i \in 0..(LongestKey - 1) :
          pwCalls[i + 1] =
              [j \in 1..Len(pwVar) |->
                  pwVar[j].data[(i % LenOfKey(pwVar[j])) + 1]]

\* C26 (amended): piecewise calls the branch function once per index below
\* L = max(ni) with the cyclically repeated elements, and returns the
\* results concatenated in index order as one flat array: its length is L
\* for scalar branch results and L * m for branch results of m values.
C26_PiecewiseConcatenates ==
    pwPc = "returned" /\ pwVar # << >> =>
        LET m == IF pwWidth = 0 THEN 1 ELSE pwWidth
        IN  /\ CalledCyclically
            /\ Len(pwArray) = LongestKey * m
            /\ \A i \in 0..(LongestKey - 1) : \A t \in 1..m :
                  /\ pwArray[i * m + t].args = pwCalls[i + 1]
                  /\ pwArray[i * m + t].at = IF pwWidth = 0 THEN 0 ELSE t

\* C26 (as stated): the output array has length L, for scalar and for array
\* branch results alike.
C26_PiecewiseLengthL ==
    pwPc = "returned" /\ pwVar # << >> =>
        /\ CalledCyclically
        /\ Len(pwArray) = LongestKey

\* C26 witness: piecewise has returned for keys of lengths 3 and 2 and a
\* branch function that returns arrays of two values: three calls, the
\* third with the first element of the shorter key again, six values
C26_Witness ==
    /\ pwPc = "returned"
    /\ Len(pwVar) = 2
    /\ pwVar[1] = Quantity1(<<1, 1, 2>>)
    /\ pwVar[2] = Quantity1(<<1, 2>>)
    /\ pwWidth = 2
    /\ pwCalls = <<<<1, 1>>, <<1, 2>>, <<2, 1>>>>
    /\ Len(pwArray) = 6

\* the quantity r is the quantity q expressed in the base unit
InBaseUnits(r, q) ==
    /\ r.unit = "m"
    /\ Len(r.data) = Len(q.data)
    /\ \A i \in 1..Len(q.data) :
          r.data[i] = IF q.unit = "km" THEN 1000 * q.data[i] ELSE q.data[i]

\* C27: when calc_series calls the model function, every quantity of the
\* dict handed over is in base units: each parameter is the parameter of the
\* caller converted, the axis entry is the converted x of a plot or the
\* converted axis value of a point calculation; the dict and the x of the
\* caller are as they were.
C27_ModelGetsBaseUnits ==
    [][(csPc = "called" /\ csPc' = "returned") =>
          /\ csQty' = csQty
          /\ csX' = csX
          /\ \A k \in DOMAIN csVar' :
                IF k = csPlotX /\ csX # NoX
                THEN InBaseUnits(csVar'[k], csX)
                ELSE InBaseUnits(csVar'[k], csQty[k])
          /\ DOMAIN csQty \subseteq DOMAIN csVar']_vars

\* C27 witness: calc_series has called the model for a plot along x with
\* samples in km and a parameter a in km: both are handed over in m, and
\* the dict of the caller still holds a in km
C27_Witness ==
    /\ csPc = "returned"
    /\ csPlotX = "x"
    /\ csX = UnitQuantity(<<1, 2>>, 1, "km")
    /\ csQty = [a \in {"a"} |-> UnitQuantity(<<2>>, 0, "km")]
    /\ csVar["x"] = UnitQuantity(<<1000, 2000>>, 1, "m")
    /\ csVar["a"] = UnitQuantity(<<2000>>, 0, "m")

\* the places in units whose unit has the dimension of the grid
Matching == {i \in 1..Len(igUnits) : igUnits[i].dim = igGrid}

\* C28: integrate evaluates the function only after it has put the grid in
\* the place of one variable, the first in declared order whose unit has
\* the dimension of the grid; when no declared unit has it, the function is
\* not evaluated (the evaluation fails with an error).
C28_IntegrateNeedsGridVariable ==
    igPc = "returned" /\ igUnits # << >> =>
        /\ Matching # {}
        /\ \A k \in DOMAIN igEval :
              igEval[k] = "grid" <=> k = igUnits[MinOf(Matching)].key

\* C29: no step changes the sample array, the parameters or the options of
\* a PlotData object that exists: edits of the inputs and of the options,
\* plot requests and evaluations leave them as they were made, and every
\* object made stays.
C29_SlotTripleNeverChanges ==
    [][\A p \in 1..Len(heap) :
          /\ p <= Len(heap')
          /\ heap'[p].x = heap[p].x
          /\ heap'[p].qty = heap[p].qty
          /\ heap'[p].opt = heap[p].opt]_vars

\* C29 witness: an object made and evaluated for the first output is as it
\* was made, while the page shows the second output on another axis and a
\* later plot request has made an object for them that has its result
C29_Witness ==
    \E p, q \in 1..Len(heap) :
        /\ p < q
        /\ heap[p].result # NoResult
        /\ heap[p].opt.output = OutputChoices[1]
        /\ heap[p].x = Linspace(1, 3, NUM_OF_DATAPOINTS)
        /\ "x" \notin DOMAIN heap[p].qty
        /\ option.output = OutputChoices[2]
        /\ plotX = "a"
        /\ heap[q].opt = option
        /\ "a" \notin DOMAIN heap[q].qty
        /\ heap[q].result # NoResult

\* C30: while plot() runs or the worker it has started has its completion
\* outstanding, the plot button is disabled: no handler enables it before
\* plot_post or the failure path of plot() does.
C30_BusyButtonDisabled ==
    (mainPc # "idle" \/ \E w \in 1..Len(workers) : InFlight(workers[w])) =>
        ~plotBtn

\* the plot() call that returned last ended in its except branch
LastCallFailed == prevCall.w = 0 /\ prevCall.snap # NoCall.snap

\* C31: when plot_pre raises, plot() starts no worker, leaves the busy
\* state (button enabled, indicator 0) and shows the error in the status
\* bar, before the handler that called it goes on; the GUI thread is free
\* for the next handler, and a plot() call made after a failed one whose
\* plot_pre returns starts a worker.
C31_FailedPreparationHandled ==
    [][/\ (mainPc = "fail" /\ mainPc' = "idle") =>
             /\ Len(workers') = Len(workers)
             /\ plotState' # 1
             /\ cont # "return" =>
                   plotBtn' /\ plotState' = 0 /\ statusMsg' = pendingEx
             /\ pendingEx # ""
             /\ LastCallFailed'
       /\ (LastCallFailed /\ mainPc = "loop" /\ mainPc' = "idle") =>
             /\ Len(workers') = Len(workers) + 1
             /\ workers'[Len(workers')].phase = "queued"
             /\ ~LastCallFailed']_vars

\* C31 witness: a plot() call has failed, and the plot_pre of a later call
\* has returned with every entry of the cache list made
C31_Witness ==
    /\ LastCallFailed
    /\ mainPc = "loop"
    /\ loopN = Len(plots)
    /\ \A j \in 1..Len(plots) : plots[j] # NoneSlot

\* C32: whenever no plot() call is running, every entry of the cache list
\* is a PlotData object: no None entry of the resize is left in the list
\* once plot() has returned, whether plot_pre has returned or raised.
C32_NoPlaceholderAfterPlot ==
    mainPc = "idle" => \A j \in 1..Len(plots) : plots[j] # NoneSlot

\* C33: while the plot() call made for a Return key press in a plot field
\* runs, the parameter snapshot it reads is the one parsed from the texts
\* the plot fields hold.
C33_ReturnBatchUsesCurrentText ==
    (mainPc # "idle" /\ cont = "return") =>
        plotInputQtys = CheckInputs(plotInputs)

\* this call differs from the previous one in the text of the axis input
\* and in nothing else, and the two texts have the same first and the same
\* last value
OnlyInsideChanged ==
    /\ prevCall.snap.opt = option
    /\ prevCall.snap.px = plotX
    /\ prevCall.snap.npts = plotNumOfPts
    /\ prevCall.snap.pq[plotX] # plotInputQtys[plotX]
    /\ prevCall.snap.pq[plotX][1] = plotInputQtys[plotX][1]
    /\ prevCall.snap.pq[plotX][Len(prevCall.snap.pq[plotX])] =
          plotInputQtys[plotX][Len(plotInputQtys[plotX])]
    /\ \A j \in KeySet : j # plotX => prevCall.snap.pq[j] = plotInputQtys[j]

\* C34: when plot_pre has ended, the sample array of every entry of the
\* cache list has as many samples as the point count says, starts at the
\* first and ends at the last value of the axis input, with equal steps in
\* between; and a call that differs from the previous one only in values
\* of the axis input between its first and its last leaves every entry of
\* the cache list as it was.
C34_SampleArrayFromEnds ==
    /\ PreDone =>
          \A j \in 1..Len(plots) :
              LET x == heap[plots[j]].x
                  q == plotInputQtys[plotX]
              IN  /\ XLen(x) = plotNumOfPts
                  /\ XAt(x, 1) = q[1] * (plotNumOfPts - 1)
                  /\ XAt(x, XLen(x)) = q[Len(q)] * (plotNumOfPts - 1)
                  /\ \A i \in 1..(XLen(x) - 1) :
                        XAt(x, i + 1) - XAt(x, i) = q[Len(q)] - q[1]
    /\ (PreDone /\ HasPrev /\ OnlyInsideChanged) => plots = before

\* C34 witness: plot_pre has ended for a call that differs from the
\* previous one only in the middle value of the axis input; the entries
\* are the ones of the previous call and have their results
C34_Witness ==
    /\ PreDone
    /\ HasPrev
    /\ OnlyInsideChanged
    /\ Len(plotInputQtys[plotX]) = 3
    /\ plotInputQtys[plotX][1] # plotInputQtys[plotX][3]
    /\ Len(plots) = 2
    /\ plots = before
    /\ \A j \in 1..Len(plots) : heap[plots[j]].result # NoResult

\* the inputs that are not applicable for the selected options
Inapplicable == {k \in KeySet : ~InputRelevance(option, k)}

\* this call differs from the previous one in the text of an input that is
\* not applicable, and in nothing else
OnlyInapplicableChanged ==
    /\ prevCall.snap.opt = option
    /\ prevCall.snap.px = plotX
    /\ prevCall.snap.npts = plotNumOfPts
    /\ \E k \in Inapplicable : prevCall.snap.pq[k] # plotInputQtys[k]
    /\ \A j \in KeySet \ Inapplicable : prevCall.snap.pq[j] = plotInputQtys[j]

\* C35: when plot_pre has ended, the parameters of every entry of the cache
\* list hold the applicable inputs other than the axis and no other input,
\* the legend keys are among them, and the number of entries is the one
\* the applicable inputs give, whatever the texts of the other inputs are;
\* and a call that differs from the previous one only in the text of an
\* input that is not applicable leaves every entry as it was.
C35_InapplicableInputsExcluded ==
    /\ PreDone =>
          /\ \A j \in 1..Len(plots) : DOMAIN heap[plots[j]].qty = Applicable
          /\ Range(legendKeys) \subseteq Applicable
          /\ Range(legendKeys) \cap Inapplicable = {}
          /\ Len(plots) =
                IF Applicable = {} THEN 1
                ELSE MinOf({Len(plotInputQtys[k]) :
                              k \in {j \in Applicable :
                                       Len(plotInputQtys[j]) > 1
                                       /\ Varying(plotInputQtys, j)}})
    /\ (PreDone /\ HasPrev /\ OnlyInapplicableChanged) => plots = before

\* C35 witness: plot_pre has ended for a call that differs from the
\* previous one only in the text of input b, which is not applicable for
\* the second output; the two entries are the ones of the previous call,
\* they have their results and no value of b
C35_Witness ==
    /\ PreDone
    /\ HasPrev
    /\ OnlyInapplicableChanged
    /\ "b" \in Inapplicable
    /\ Len(plots) = 2
    /\ plots = before
    /\ \A j \in 1..Len(plots) :
          /\ heap[plots[j]].result # NoResult
          /\ "b" \notin DOMAIN heap[plots[j]].qty

\* C36: while the page has no plot axis, the plot button is disabled and no
\* plot() call runs.
C36_NoAxisNoPlot ==
    plotX = "" => (~plotBtn /\ mainPc = "idle")

\* C37: once existingPlots of the page is set it stays set, and from then
\* on on_tab_changed calls no plot() and changes neither the calculated
\* point nor the workers; existingPlots is set when, and only when, the
\* plot() call of on_tab_changed has returned; an on_tab_changed whose
\* calc() raises leaves it unset and starts no worker, and the next
\* on_tab_changed of the page calls calc() again and, when calc() returns,
\* plot().
C37_PlottedOnFirstActivationOnly ==
    [][/\ existingPlots => (existingPlots' /\ cont' # "tab")
       /\ (existingPlots /\ TabRevisit) =>
             UNCHANGED <<calcPoint, workers, heap, plots, mainPc>>
       /\ ((TabEnter \/ TabRetry) /\ CalcRaises(calcInputQtys, option, plotX)) =>
             /\ ~existingPlots'
             /\ workers' = workers
             /\ mainPc' = "idle"
       /\ (TabRetry /\ ~CalcRaises(calcInputQtys, option, plotX)) =>
             /\ calcPoint' = CalcPointOf(calcInputQtys, option, plotX)
             /\ cont' = "tab"
             /\ mainPc' # "idle"
       /\ (cont = "tab" /\ mainPc # "idle" /\ mainPc' = "idle") => existingPlots'
       /\ (~existingPlots /\ existingPlots') =>
             (cont = "tab" /\ mainPc # "idle")]_vars

\* C37 witness: the model function raises at the mean of the representative
\* values of input a, so calc() has raised in the first visit; the user has
\* typed another value into the calculator, the next visit has calculated
\* the point and started a batch, and existingPlots is set
C37_Witness ==
    /\ plotInputs.a = <<1>>
    /\ "a" \notin edited
    /\ calcInputs.a = <<2>>
    /\ option.output = OutputChoices[1]
    /\ existingPlots
    /\ calcPoint.y # NoResult
    /\ prevCall.w = 1
    /\ Len(workers) = 1

====
